---- MODULE Spec2Model ----
(***************************************************************************)
(* A model of thedoc's three documentation parsers:                        *)
(*   SwiftParser  (src/src/thedoc/parsers/swift_parser.py)                 *)
(*   KotlinParser (src/src/thedoc/parsers/kotlin_parser.py)                *)
(*   DotNetParser (src/src/thedoc/parsers/dotnet_parser.py)                *)
(*                                                                         *)
(* Text is modelled character by character: a Python str is a sequence of  *)
(* one-character strings, so that the regular expressions of the parsers   *)
(* are computed on the same characters the code sees.  A character of      *)
(* U+0001..U+00FF is written as itself (BQ for U+0060), any other by its   *)
(* code point, as Chr gives it; the character classes are those of the     *)
(* Python that runs the parsers (Unicode 14.0) and of its expat.           *)
(***************************************************************************)
EXTENDS Naturals, Integers, Sequences, FiniteSets, TLC

VARIABLES
    parser,         \* which parser object runs: "swift", "kotlin" or "dotnet"
    content,        \* the file's text, as read by f.read()
    pc,             \* position of the running parse_file call
    lines,          \* content.split('\n') (Swift, DotNet); <<>> for Kotlin
    line_index,     \* SwiftParser._parse_file_to_dict: line_index
    pos,            \* KotlinParser.parse_file: where finditer resumes (0-based)
    doc_blocks,     \* DotNetParser.parse_file: doc_blocks
    block_index,    \* DotNetParser.parse_file: number of blocks already processed
    documentation,  \* the dict of buckets under construction / returned
    origins,        \* history: per bucket, where in the file each item's block starts
    block,          \* history: Swift, the doc block of the last loop iteration
    diagnostics,    \* DotNet: number of blocks reported by the except branch
    raised,         \* TRUE when an exception left parse_file
    doc_items,      \* SwiftParser.parse_file: the returned list of DocItem
    calls           \* history: the earlier parse_file calls on this parser instance

vars == <<parser, content, pc, lines, line_index, pos, doc_blocks, block_index,
          documentation, origins, block, diagnostics, raised, doc_items, calls>>

-----------------------------------------------------------------------------
(* Bounds of the model *)

\* number of segments a Swift input file is made of
MaxSwiftSegs == 2

\* number of segments a Kotlin input file is made of
MaxKotlinSegs == 2

\* number of segments a .NET input file is made of
MaxDotNetSegs == 2

-----------------------------------------------------------------------------
(* Characters and Python str primitives *)

NL == "\n"

\* the backquote character (U+0060), which a TLA+ string literal cannot hold
BQ == "BACKQUOTE"

\* chr(n): the character with code point n as the model writes it: the
\* character itself from U+0001 to U+00FF and for U+1680, BQ for U+0060, and
\* the code point as "U+XXXX" for U+0000 and from U+0100 on
Chr(n) ==
    LET latin1 ==
            <<"","","","","","","","","\t",NL,"","\f","\r","","","","","","",
              "","","","","","","","","","","",""," ","!","\"","#","$","%","&",
              "'","(",")","*","+",",","-",".","/","0","1","2","3","4","5","6","7","8","9",
              ":",";","<","=",">","?","@","A","B","C","D","E","F","G","H","I","J","K","L",
              "M","N","O","P","Q","R","S","T","U","V","W","X","Y","Z","[","\\","]","^","_",
              BQ,"a","b","c","d","e","f","g","h","i","j","k","l","m","n","o","p","q","r",
              "s","t","u","v","w","x","y","z","{","|","}","~","","","","","","","",
              "","","","","","","","","","","","","","","","","","","",
              "","","","","","",""," ","¡","¢","£","¤","¥","¦","§","¨","©","ª","«",
              "¬","­","®","¯","°","±","²","³","´","µ","¶","·","¸","¹","º","»","¼","½","¾",
              "¿","À","Á","Â","Ã","Ä","Å","Æ","Ç","È","É","Ê","Ë","Ì","Í","Î","Ï","Ð","Ñ",
              "Ò","Ó","Ô","Õ","Ö","×","Ø","Ù","Ú","Û","Ü","Ý","Þ","ß","à","á","â","ã","ä",
              "å","æ","ç","è","é","ê","ë","ì","í","î","ï","ð","ñ","ò","ó","ô","õ","ö","÷",
              "ø","ù","ú","û","ü","ý","þ","ÿ">>
        hex == <<"0","1","2","3","4","5","6","7","8","9","A","B","C","D","E","F">>
    IN  IF n = 0 THEN "U+0000"
        ELSE IF n < 256 THEN latin1[n]
        ELSE IF n = 5760 THEN " "
        ELSE "U+" \o (IF n >= 1048576 THEN hex[(n \div 1048576) + 1] ELSE "")
                  \o (IF n >= 65536 THEN hex[((n \div 65536) % 16) + 1] ELSE "")
                  \o hex[((n \div 4096) % 16) + 1] \o hex[((n \div 256) % 16) + 1]
                  \o hex[((n \div 16) % 16) + 1] \o hex[(n % 16) + 1]

\* the characters of the code point ranges r = <<first, last, first, last, ...>>
CharsIn(r) == {Chr(n) : n \in UNION {r[2 * k - 1]..r[2 * k] : k \in 1..(Len(r) \div 2)}}

\* str.strip() / re \s : the characters c with c.isspace(): the ASCII ones,
\* U+000B, U+000C, U+001C..U+001F, U+0085, U+00A0, U+1680 and the Unicode
\* spaces from U+2000 on, which a TLA+ string literal cannot hold and which
\* are written by their code point
Space ==
    {" ", NL, "\t", "\r",
     "","\f","","","","",""," "," ",
     "U+2000","U+2001","U+2002","U+2003","U+2004","U+2005","U+2006","U+2007",
     "U+2008","U+2009","U+200A","U+2028","U+2029","U+202F","U+205F","U+3000"}

Lower == {"a","b","c","d","e","f","g","h","i","j","k","l","m",
          "n","o","p","q","r","s","t","u","v","w","x","y","z"}

Upper == {"A","B","C","D","E","F","G","H","I","J","K","L","M",
          "N","O","P","Q","R","S","T","U","V","W","X","Y","Z"}

Digit == {"0","1","2","3","4","5","6","7","8","9"}

\* re \w on a str pattern: the characters c with c.isalnum(), and '_'
\* (Unicode 14.0, the tables of the Python that runs the parsers)
Word ==
    CharsIn(<<48,57,65,90,95,95,97,122,170,170,178,179,181,181,185,186,188,190,192,214,216,
              246,248,705,710,721,736,740,748,748,750,750,880,884,886,887,890,893,895,895,
              902,902,904,906,908,908,910,929,931,1013,1015,1153,1162,1327,1329,1366,1369,
              1369,1376,1416,1488,1514,1519,1522,1568,1610,1632,1641,1646,1647,1649,1747,
              1749,1749,1765,1766,1774,1788,1791,1791,1808,1808,1810,1839,1869,1957,1969,
              1969,1984,2026,2036,2037,2042,2042,2048,2069,2074,2074,2084,2084,2088,2088,
              2112,2136,2144,2154,2160,2183,2185,2190,2208,2249,2308,2361,2365,2365,2384,
              2384,2392,2401,2406,2415,2417,2432,2437,2444,2447,2448,2451,2472,2474,2480,
              2482,2482,2486,2489,2493,2493,2510,2510,2524,2525,2527,2529,2534,2545,2548,
              2553,2556,2556,2565,2570,2575,2576,2579,2600,2602,2608,2610,2611,2613,2614,
              2616,2617,2649,2652,2654,2654,2662,2671,2674,2676,2693,2701,2703,2705,2707,
              2728,2730,2736,2738,2739,2741,2745,2749,2749,2768,2768,2784,2785,2790,2799,
              2809,2809,2821,2828,2831,2832,2835,2856,2858,2864,2866,2867,2869,2873,2877,
              2877,2908,2909,2911,2913,2918,2927,2929,2935,2947,2947,2949,2954,2958,2960,
              2962,2965,2969,2970,2972,2972,2974,2975,2979,2980,2984,2986,2990,3001,3024,
              3024,3046,3058,3077,3084,3086,3088,3090,3112,3114,3129,3133,3133,3160,3162,
              3165,3165,3168,3169,3174,3183,3192,3198,3200,3200,3205,3212,3214,3216,3218,
              3240,3242,3251,3253,3257,3261,3261,3293,3294,3296,3297,3302,3311,3313,3314,
              3332,3340,3342,3344,3346,3386,3389,3389,3406,3406,3412,3414,3416,3425,3430,
              3448,3450,3455,3461,3478,3482,3505,3507,3515,3517,3517,3520,3526,3558,3567,
              3585,3632,3634,3635,3648,3654,3664,3673,3713,3714,3716,3716,3718,3722,3724,
              3747,3749,3749,3751,3760,3762,3763,3773,3773,3776,3780,3782,3782,3792,3801,
              3804,3807,3840,3840,3872,3891,3904,3911,3913,3948,3976,3980,4096,4138,4159,
              4169,4176,4181,4186,4189,4193,4193,4197,4198,4206,4208,4213,4225,4238,4238,
              4240,4249,4256,4293,4295,4295,4301,4301,4304,4346,4348,4680,4682,4685,4688,
              4694,4696,4696,4698,4701,4704,4744,4746,4749,4752,4784,4786,4789,4792,4798,
              4800,4800,4802,4805,4808,4822,4824,4880,4882,4885,4888,4954,4969,4988,4992,
              5007,5024,5109,5112,5117,5121,5740,5743,5759,5761,5786,5792,5866,5870,5880,
              5888,5905,5919,5937,5952,5969,5984,5996,5998,6000,6016,6067,6103,6103,6108,
              6108,6112,6121,6128,6137,6160,6169,6176,6264,6272,6276,6279,6312,6314,6314,
              6320,6389,6400,6430,6470,6509,6512,6516,6528,6571,6576,6601,6608,6618,6656,
              6678,6688,6740,6784,6793,6800,6809,6823,6823,6917,6963,6981,6988,6992,7001,
              7043,7072,7086,7141,7168,7203,7232,7241,7245,7293,7296,7304,7312,7354,7357,
              7359,7401,7404,7406,7411,7413,7414,7418,7418,7424,7615,7680,7957,7960,7965,
              7968,8005,8008,8013,8016,8023,8025,8025,8027,8027,8029,8029,8031,8061,8064,
              8116,8118,8124,8126,8126,8130,8132,8134,8140,8144,8147,8150,8155,8160,8172,
              8178,8180,8182,8188,8304,8305,8308,8313,8319,8329,8336,8348,8450,8450,8455,
              8455,8458,8467,8469,8469,8473,8477,8484,8484,8486,8486,8488,8488,8490,8493,
              8495,8505,8508,8511,8517,8521,8526,8526,8528,8585,9312,9371,9450,9471,10102,
              10131,11264,11492,11499,11502,11506,11507,11517,11517,11520,11557,11559,11559,
              11565,11565,11568,11623,11631,11631,11648,11670,11680,11686,11688,11694,11696,
              11702,11704,11710,11712,11718,11720,11726,11728,11734,11736,11742,11823,11823,
              12293,12295,12321,12329,12337,12341,12344,12348,12353,12438,12445,12447,12449,
              12538,12540,12543,12549,12591,12593,12686,12690,12693,12704,12735,12784,12799,
              12832,12841,12872,12879,12881,12895,12928,12937,12977,12991,13312,19903,19968,
              42124,42192,42237,42240,42508,42512,42539,42560,42606,42623,42653,42656,42735,
              42775,42783,42786,42888,42891,42954,42960,42961,42963,42963,42965,42969,42994,
              43009,43011,43013,43015,43018,43020,43042,43056,43061,43072,43123,43138,43187,
              43216,43225,43250,43255,43259,43259,43261,43262,43264,43301,43312,43334,43360,
              43388,43396,43442,43471,43481,43488,43492,43494,43518,43520,43560,43584,43586,
              43588,43595,43600,43609,43616,43638,43642,43642,43646,43695,43697,43697,43701,
              43702,43705,43709,43712,43712,43714,43714,43739,43741,43744,43754,43762,43764,
              43777,43782,43785,43790,43793,43798,43808,43814,43816,43822,43824,43866,43868,
              43881,43888,44002,44016,44025,44032,55203,55216,55238,55243,55291,63744,64109,
              64112,64217,64256,64262,64275,64279,64285,64285,64287,64296,64298,64310,64312,
              64316,64318,64318,64320,64321,64323,64324,64326,64433,64467,64829,64848,64911,
              64914,64967,65008,65019,65136,65140,65142,65276,65296,65305,65313,65338,65345,
              65370,65382,65470,65474,65479,65482,65487,65490,65495,65498,65500,65536,65547,
              65549,65574,65576,65594,65596,65597,65599,65613,65616,65629,65664,65786,65799,
              65843,65856,65912,65930,65931,66176,66204,66208,66256,66273,66299,66304,66339,
              66349,66378,66384,66421,66432,66461,66464,66499,66504,66511,66513,66517,66560,
              66717,66720,66729,66736,66771,66776,66811,66816,66855,66864,66915,66928,66938,
              66940,66954,66956,66962,66964,66965,66967,66977,66979,66993,66995,67001,67003,
              67004,67072,67382,67392,67413,67424,67431,67456,67461,67463,67504,67506,67514,
              67584,67589,67592,67592,67594,67637,67639,67640,67644,67644,67647,67669,67672,
              67702,67705,67742,67751,67759,67808,67826,67828,67829,67835,67867,67872,67897,
              67968,68023,68028,68047,68050,68096,68112,68115,68117,68119,68121,68149,68160,
              68168,68192,68222,68224,68255,68288,68295,68297,68324,68331,68335,68352,68405,
              68416,68437,68440,68466,68472,68497,68521,68527,68608,68680,68736,68786,68800,
              68850,68858,68899,68912,68921,69216,69246,69248,69289,69296,69297,69376,69415,
              69424,69445,69457,69460,69488,69505,69552,69579,69600,69622,69635,69687,69714,
              69743,69745,69746,69749,69749,69763,69807,69840,69864,69872,69881,69891,69926,
              69942,69951,69956,69956,69959,69959,69968,70002,70006,70006,70019,70066,70081,
              70084,70096,70106,70108,70108,70113,70132,70144,70161,70163,70187,70272,70278,
              70280,70280,70282,70285,70287,70301,70303,70312,70320,70366,70384,70393,70405,
              70412,70415,70416,70419,70440,70442,70448,70450,70451,70453,70457,70461,70461,
              70480,70480,70493,70497,70656,70708,70727,70730,70736,70745,70751,70753,70784,
              70831,70852,70853,70855,70855,70864,70873,71040,71086,71128,71131,71168,71215,
              71236,71236,71248,71257,71296,71338,71352,71352,71360,71369,71424,71450,71472,
              71483,71488,71494,71680,71723,71840,71922,71935,71942,71945,71945,71948,71955,
              71957,71958,71960,71983,71999,71999,72001,72001,72016,72025,72096,72103,72106,
              72144,72161,72161,72163,72163,72192,72192,72203,72242,72250,72250,72272,72272,
              72284,72329,72349,72349,72368,72440,72704,72712,72714,72750,72768,72768,72784,
              72812,72818,72847,72960,72966,72968,72969,72971,73008,73030,73030,73040,73049,
              73056,73061,73063,73064,73066,73097,73112,73112,73120,73129,73440,73458,73648,
              73648,73664,73684,73728,74649,74752,74862,74880,75075,77712,77808,77824,78894,
              82944,83526,92160,92728,92736,92766,92768,92777,92784,92862,92864,92873,92880,
              92909,92928,92975,92992,92995,93008,93017,93019,93025,93027,93047,93053,93071,
              93760,93846,93952,94026,94032,94032,94099,94111,94176,94177,94179,94179,94208,
              100343,100352,101589,101632,101640,110576,110579,110581,110587,110589,110590,
              110592,110882,110928,110930,110948,110951,110960,111355,113664,113770,113776,
              113788,113792,113800,113808,113817,119520,119539,119648,119672,119808,119892,
              119894,119964,119966,119967,119970,119970,119973,119974,119977,119980,119982,
              119993,119995,119995,119997,120003,120005,120069,120071,120074,120077,120084,
              120086,120092,120094,120121,120123,120126,120128,120132,120134,120134,120138,
              120144,120146,120485,120488,120512,120514,120538,120540,120570,120572,120596,
              120598,120628,120630,120654,120656,120686,120688,120712,120714,120744,120746,
              120770,120772,120779,120782,120831,122624,122654,123136,123180,123191,123197,
              123200,123209,123214,123214,123536,123565,123584,123627,123632,123641,124896,
              124902,124904,124907,124909,124910,124912,124926,124928,125124,125127,125135,
              125184,125251,125259,125259,125264,125273,126065,126123,126125,126127,126129,
              126132,126209,126253,126255,126269,126464,126467,126469,126495,126497,126498,
              126500,126500,126503,126503,126505,126514,126516,126519,126521,126521,126523,
              126523,126530,126530,126535,126535,126537,126537,126539,126539,126541,126543,
              126545,126546,126548,126548,126551,126551,126553,126553,126555,126555,126557,
              126557,126559,126559,126561,126562,126564,126564,126567,126570,126572,126578,
              126580,126583,126585,126588,126590,126590,126592,126601,126603,126619,126625,
              126627,126629,126633,126635,126651,127232,127244,130032,130041,131072,173791,
              173824,177976,177984,178205,178208,183969,183984,191456,194560,195101,196608,
              201546>>)

\* re [a-zA-Z_]
IdentStart == Lower \cup Upper \cup {"_"}

Min(S) == CHOOSE x \in S : \A y \in S : x <= y

Max(S) == CHOOSE x \in S : \A y \in S : x >= y

\* s[i:] for a 1-based i (empty when i > Len(s))
From(s, i) == SubSeq(s, i, Len(s))

\* s.startswith(p)
StartsWith(s, p) == Len(s) >= Len(p) /\ SubSeq(s, 1, Len(p)) = p

\* the literal p occurs in s at 1-based position i
At(s, i, p) == i >= 1 /\ i + Len(p) - 1 <= Len(s) /\ SubSeq(s, i, i + Len(p) - 1) = p

\* p in s
Contains(s, p) == \E i \in 1..(Len(s) + 1) : At(s, i, p)

\* the 1-based positions >= from at which the literal p occurs in s
Occurrences(s, p, from) == {i \in from..(Len(s) + 1) : At(s, i, p)}

\* the end (1-based, inclusive; i-1 when empty) of the longest run of characters
\* of class C that starts at position i: what a greedy C* consumes
RunEnd(s, i, C) ==
    CHOOSE j \in (i - 1)..Len(s) :
        /\ \A k \in i..j : s[k] \in C
        /\ (j = Len(s) \/ s[j + 1] \notin C)

\* str.lstrip()
LStrip(s) == From(s, RunEnd(s, 1, Space) + 1)

\* str.rstrip()
RStrip(s) ==
    LET keep == {j \in 0..Len(s) : \A k \in (j + 1)..Len(s) : s[k] \in Space}
    IN  SubSeq(s, 1, Min(keep))

\* str.strip()
Strip(s) == LStrip(RStrip(s))

\* sep.join(parts)
RECURSIVE Join(_, _)
Join(parts, sep) ==
    IF parts = <<>> THEN <<>>
    ELSE IF Len(parts) = 1 THEN parts[1]
    ELSE parts[1] \o sep \o Join(Tail(parts), sep)

\* s.split(sep) for a non-empty literal sep: always at least one part
RECURSIVE Split(_, _)
Split(s, sep) ==
    LET occ == Occurrences(s, sep, 1)
    IN  IF occ = {} THEN <<s>>
        ELSE LET i == Min(occ)
             IN  <<SubSeq(s, 1, i - 1)>> \o Split(From(s, i + Len(sep)), sep)

\* s.split(sep, 1)
Split1(s, sep) ==
    LET occ == Occurrences(s, sep, 1)
    IN  IF occ = {} THEN <<s>>
        ELSE LET i == Min(occ)
             IN  <<SubSeq(s, 1, i - 1), From(s, i + Len(sep))>>

\* the longest run, from position i, of characters that are not in class D
RunEndNot(s, i, D) ==
    CHOOSE j \in (i - 1)..Len(s) :
        /\ \A k \in i..j : s[k] \notin D
        /\ (j = Len(s) \/ s[j + 1] \in D)

\* the concatenation of a sequence of sequences
RECURSIVE Concat(_)
Concat(ss) == IF ss = <<>> THEN <<>> ELSE Head(ss) \o Concat(Tail(ss))

\* c.lower() for the characters c it gives one other character for; the
\* table lists <<first, last, step, lower of first>> for each run of code
\* points whose lowercase forms are as far from them as that of the first
LowerMap ==
    LET r == <<65,90,1,97,192,214,1,224,216,222,1,248,256,302,2,257,306,310,2,307,313,327,2,
               314,330,374,2,331,376,376,1,255,377,381,2,378,385,385,1,595,386,388,2,387,
               390,390,1,596,391,391,1,392,393,394,1,598,395,395,1,396,398,398,1,477,399,
               399,1,601,400,400,1,603,401,401,1,402,403,403,1,608,404,404,1,611,406,406,1,
               617,407,407,1,616,408,408,1,409,412,412,1,623,413,413,1,626,415,415,1,629,
               416,420,2,417,422,422,1,640,423,423,1,424,425,425,1,643,428,428,1,429,430,
               430,1,648,431,431,1,432,433,434,1,650,435,437,2,436,439,439,1,658,440,440,1,
               441,444,444,1,445,452,452,1,454,453,453,1,454,455,455,1,457,456,456,1,457,
               458,458,1,460,459,475,2,460,478,494,2,479,497,497,1,499,498,500,2,499,502,
               502,1,405,503,503,1,447,504,542,2,505,544,544,1,414,546,562,2,547,570,570,1,
               11365,571,571,1,572,573,573,1,410,574,574,1,11366,577,577,1,578,579,579,1,
               384,580,580,1,649,581,581,1,652,582,590,2,583,880,882,2,881,886,886,1,887,
               895,895,1,1011,902,902,1,940,904,906,1,941,908,908,1,972,910,911,1,973,913,
               929,1,945,931,939,1,963,975,975,1,983,984,1006,2,985,1012,1012,1,952,1015,
               1015,1,1016,1017,1017,1,1010,1018,1018,1,1019,1021,1023,1,891,1024,1039,1,
               1104,1040,1071,1,1072,1120,1152,2,1121,1162,1214,2,1163,1216,1216,1,1231,
               1217,1229,2,1218,1232,1326,2,1233,1329,1366,1,1377,4256,4293,1,11520,4295,
               4295,1,11559,4301,4301,1,11565,5024,5103,1,43888,5104,5109,1,5112,7312,7354,
               1,4304,7357,7359,1,4349,7680,7828,2,7681,7838,7838,1,223,7840,7934,2,7841,
               7944,7951,1,7936,7960,7965,1,7952,7976,7983,1,7968,7992,7999,1,7984,8008,
               8013,1,8000,8025,8031,2,8017,8040,8047,1,8032,8072,8079,1,8064,8088,8095,1,
               8080,8104,8111,1,8096,8120,8121,1,8112,8122,8123,1,8048,8124,8124,1,8115,
               8136,8139,1,8050,8140,8140,1,8131,8152,8153,1,8144,8154,8155,1,8054,8168,
               8169,1,8160,8170,8171,1,8058,8172,8172,1,8165,8184,8185,1,8056,8186,8187,1,
               8060,8188,8188,1,8179,8486,8486,1,969,8490,8490,1,107,8491,8491,1,229,8498,
               8498,1,8526,8544,8559,1,8560,8579,8579,1,8580,9398,9423,1,9424,11264,11311,1,
               11312,11360,11360,1,11361,11362,11362,1,619,11363,11363,1,7549,11364,11364,1,
               637,11367,11371,2,11368,11373,11373,1,593,11374,11374,1,625,11375,11375,1,
               592,11376,11376,1,594,11378,11378,1,11379,11381,11381,1,11382,11390,11391,1,
               575,11392,11490,2,11393,11499,11501,2,11500,11506,11506,1,11507,42560,42604,
               2,42561,42624,42650,2,42625,42786,42798,2,42787,42802,42862,2,42803,42873,
               42875,2,42874,42877,42877,1,7545,42878,42886,2,42879,42891,42891,1,42892,
               42893,42893,1,613,42896,42898,2,42897,42902,42920,2,42903,42922,42922,1,614,
               42923,42923,1,604,42924,42924,1,609,42925,42925,1,620,42926,42926,1,618,
               42928,42928,1,670,42929,42929,1,647,42930,42930,1,669,42931,42931,1,43859,
               42932,42946,2,42933,42948,42948,1,42900,42949,42949,1,642,42950,42950,1,7566,
               42951,42953,2,42952,42960,42960,1,42961,42966,42968,2,42967,42997,42997,1,
               42998,65313,65338,1,65345,66560,66599,1,66600,66736,66771,1,66776,66928,
               66938,1,66967,66940,66954,1,66979,66956,66962,1,66995,66964,66965,1,67003,
               68736,68786,1,68800,71840,71871,1,71872,93760,93791,1,93792,125184,125217,1,
               125218>>
        pairs == UNION {{<<Chr(r[4 * k - 3] + r[4 * k - 1] * j),
                           Chr(r[4 * k] + r[4 * k - 1] * j)>> :
                             j \in 0..((r[4 * k - 2] - r[4 * k - 3]) \div r[4 * k - 1])} :
                        k \in 1..(Len(r) \div 4)}
    IN  [c \in {q[1] : q \in pairs} |-> (CHOOSE q \in pairs : q[1] = c)[2]]

\* c.lower() for a character c; U+0130 gives two characters
LowerChar(c) ==
    IF c = "U+0130" THEN <<"i", "U+0307">>
    ELSE IF c \in DOMAIN LowerMap THEN <<LowerMap[c]>>
    ELSE <<c>>

\* s.lower(): each character's lower(); a capital sigma (U+03A3) that ends a
\* word is the final small sigma (U+03C2): a cased character is before it,
\* none after it, whatever case-ignorable characters are in between
ToLower(s) ==
    LET ignorable ==
            CharsIn(<<39,39,46,46,58,58,94,94,96,96,168,168,173,173,175,175,180,180,183,184,
                      688,879,884,885,890,890,900,901,903,903,1155,1161,1369,1369,1375,1375,
                      1425,1469,1471,1471,1473,1474,1476,1477,1479,1479,1524,1524,1536,1541,
                      1552,1562,1564,1564,1600,1600,1611,1631,1648,1648,1750,1757,1759,1768,
                      1770,1773,1807,1807,1809,1809,1840,1866,1958,1968,2027,2037,2042,2042,
                      2045,2045,2070,2093,2137,2139,2184,2184,2192,2193,2200,2207,2249,2306,
                      2362,2362,2364,2364,2369,2376,2381,2381,2385,2391,2402,2403,2417,2417,
                      2433,2433,2492,2492,2497,2500,2509,2509,2530,2531,2558,2558,2561,2562,
                      2620,2620,2625,2626,2631,2632,2635,2637,2641,2641,2672,2673,2677,2677,
                      2689,2690,2748,2748,2753,2757,2759,2760,2765,2765,2786,2787,2810,2815,
                      2817,2817,2876,2876,2879,2879,2881,2884,2893,2893,2901,2902,2914,2915,
                      2946,2946,3008,3008,3021,3021,3072,3072,3076,3076,3132,3132,3134,3136,
                      3142,3144,3146,3149,3157,3158,3170,3171,3201,3201,3260,3260,3263,3263,
                      3270,3270,3276,3277,3298,3299,3328,3329,3387,3388,3393,3396,3405,3405,
                      3426,3427,3457,3457,3530,3530,3538,3540,3542,3542,3633,3633,3636,3642,
                      3654,3662,3761,3761,3764,3772,3782,3782,3784,3789,3864,3865,3893,3893,
                      3895,3895,3897,3897,3953,3966,3968,3972,3974,3975,3981,3991,3993,4028,
                      4038,4038,4141,4144,4146,4151,4153,4154,4157,4158,4184,4185,4190,4192,
                      4209,4212,4226,4226,4229,4230,4237,4237,4253,4253,4348,4348,4957,4959,
                      5906,5908,5938,5939,5970,5971,6002,6003,6068,6069,6071,6077,6086,6086,
                      6089,6099,6103,6103,6109,6109,6155,6159,6211,6211,6277,6278,6313,6313,
                      6432,6434,6439,6440,6450,6450,6457,6459,6679,6680,6683,6683,6742,6742,
                      6744,6750,6752,6752,6754,6754,6757,6764,6771,6780,6783,6783,6823,6823,
                      6832,6862,6912,6915,6964,6964,6966,6970,6972,6972,6978,6978,7019,7027,
                      7040,7041,7074,7077,7080,7081,7083,7085,7142,7142,7144,7145,7149,7149,
                      7151,7153,7212,7219,7222,7223,7288,7293,7376,7378,7380,7392,7394,7400,
                      7405,7405,7412,7412,7416,7417,7468,7530,7544,7544,7579,7679,8125,8125,
                      8127,8129,8141,8143,8157,8159,8173,8175,8189,8190,8203,8207,8216,8217,
                      8228,8228,8231,8231,8234,8238,8288,8292,8294,8303,8305,8305,8319,8319,
                      8336,8348,8400,8432,11388,11389,11503,11505,11631,11631,11647,11647,
                      11744,11775,11823,11823,12293,12293,12330,12333,12337,12341,12347,
                      12347,12441,12446,12540,12542,40981,40981,42232,42237,42508,42508,
                      42607,42610,42612,42621,42623,42623,42652,42655,42736,42737,42752,
                      42785,42864,42864,42888,42890,42994,42996,43000,43001,43010,43010,
                      43014,43014,43019,43019,43045,43046,43052,43052,43204,43205,43232,
                      43249,43263,43263,43302,43309,43335,43345,43392,43394,43443,43443,
                      43446,43449,43452,43453,43471,43471,43493,43494,43561,43566,43569,
                      43570,43573,43574,43587,43587,43596,43596,43632,43632,43644,43644,
                      43696,43696,43698,43700,43703,43704,43710,43711,43713,43713,43741,
                      43741,43756,43757,43763,43764,43766,43766,43867,43871,43881,43883,
                      44005,44005,44008,44008,44013,44013,64286,64286,64434,64450,65024,
                      65039,65043,65043,65056,65071,65106,65106,65109,65109,65279,65279,
                      65287,65287,65294,65294,65306,65306,65342,65342,65344,65344,65392,
                      65392,65438,65439,65507,65507,65529,65531,66045,66045,66272,66272,
                      66422,66426,67456,67461,67463,67504,67506,67514,68097,68099,68101,
                      68102,68108,68111,68152,68154,68159,68159,68325,68326,68900,68903,
                      69291,69292,69446,69456,69506,69509,69633,69633,69688,69702,69744,
                      69744,69747,69748,69759,69761,69811,69814,69817,69818,69821,69821,
                      69826,69826,69837,69837,69888,69890,69927,69931,69933,69940,70003,
                      70003,70016,70017,70070,70078,70089,70092,70095,70095,70191,70193,
                      70196,70196,70198,70199,70206,70206,70367,70367,70371,70378,70400,
                      70401,70459,70460,70464,70464,70502,70508,70512,70516,70712,70719,
                      70722,70724,70726,70726,70750,70750,70835,70840,70842,70842,70847,
                      70848,70850,70851,71090,71093,71100,71101,71103,71104,71132,71133,
                      71219,71226,71229,71229,71231,71232,71339,71339,71341,71341,71344,
                      71349,71351,71351,71453,71455,71458,71461,71463,71467,71727,71735,
                      71737,71738,71995,71996,71998,71998,72003,72003,72148,72151,72154,
                      72155,72160,72160,72193,72202,72243,72248,72251,72254,72263,72263,
                      72273,72278,72281,72283,72330,72342,72344,72345,72752,72758,72760,
                      72765,72767,72767,72850,72871,72874,72880,72882,72883,72885,72886,
                      73009,73014,73018,73018,73020,73021,73023,73029,73031,73031,73104,
                      73105,73109,73109,73111,73111,73459,73460,78896,78904,92912,92916,
                      92976,92982,92992,92995,94031,94031,94095,94111,94176,94177,94179,
                      94180,110576,110579,110581,110587,110589,110590,113821,113822,113824,
                      113827,118528,118573,118576,118598,119143,119145,119155,119170,119173,
                      119179,119210,119213,119362,119364,121344,121398,121403,121452,121461,
                      121461,121476,121476,121499,121503,121505,121519,122880,122886,122888,
                      122904,122907,122913,122915,122916,122918,122922,123184,123197,123566,
                      123566,123628,123631,125136,125142,125252,125259,127995,127999,917505,
                      917505,917536,917631,917760,917999>>)
        cased ==
            CharsIn(<<65,90,97,122,170,170,181,181,186,186,192,214,216,246,248,442,444,447,
                      452,659,661,687,880,883,886,887,891,893,895,895,902,902,904,906,908,
                      908,910,929,931,1013,1015,1153,1162,1327,1329,1366,1376,1416,4256,
                      4293,4295,4295,4301,4301,4304,4346,4349,4351,5024,5109,5112,5117,7296,
                      7304,7312,7354,7357,7359,7424,7467,7531,7543,7545,7578,7680,7957,7960,
                      7965,7968,8005,8008,8013,8016,8023,8025,8025,8027,8027,8029,8029,8031,
                      8061,8064,8116,8118,8124,8126,8126,8130,8132,8134,8140,8144,8147,8150,
                      8155,8160,8172,8178,8180,8182,8188,8450,8450,8455,8455,8458,8467,8469,
                      8469,8473,8477,8484,8484,8486,8486,8488,8488,8490,8493,8495,8500,8505,
                      8505,8508,8511,8517,8521,8526,8526,8544,8575,8579,8580,9398,9449,
                      11264,11387,11390,11492,11499,11502,11506,11507,11520,11557,11559,
                      11559,11565,11565,42560,42605,42624,42651,42786,42863,42865,42887,
                      42891,42894,42896,42954,42960,42961,42963,42963,42965,42969,42997,
                      42998,43002,43002,43824,43866,43872,43880,43888,43967,64256,64262,
                      64275,64279,65313,65338,65345,65370,66560,66639,66736,66771,66776,
                      66811,66928,66938,66940,66954,66956,66962,66964,66965,66967,66977,
                      66979,66993,66995,67001,67003,67004,68736,68786,68800,68850,71840,
                      71903,93760,93823,119808,119892,119894,119964,119966,119967,119970,
                      119970,119973,119974,119977,119980,119982,119993,119995,119995,119997,
                      120003,120005,120069,120071,120074,120077,120084,120086,120092,120094,
                      120121,120123,120126,120128,120132,120134,120134,120138,120144,120146,
                      120485,120488,120512,120514,120538,120540,120570,120572,120596,120598,
                      120628,120630,120654,120656,120686,120688,120712,120714,120744,120746,
                      120770,120772,120779,122624,122633,122635,122654,125184,125251,127280,
                      127305,127312,127337,127344,127369>>)
        Before(i) == {j \in 1..(i - 1) : s[j] \notin ignorable}
        After(i) == {j \in (i + 1)..Len(s) : s[j] \notin ignorable}
        Final(i) == /\ Before(i) # {}
                    /\ s[Max(Before(i))] \in cased
                    /\ (After(i) = {} \/ s[Min(After(i))] \notin cased)
        Lowered(i) == IF s[i] = "U+03A3" /\ Final(i) THEN <<"U+03C2">>
                      ELSE LowerChar(s[i])
    IN  Concat([i \in 1..Len(s) |-> Lowered(i)])

\* a variant of the append that puts the item first: documentation[bucket].insert(0, item)
PrependItem(doc, bucket, item) == [doc EXCEPT ![bucket] = <<item>> \o @]

\* documentation[bucket].append(item)
AppendItem(doc, bucket, item) == [doc EXCEPT ![bucket] = Append(@, item)]

\* re: keyword\s+(C...) -- the positions where the literal kw is followed by at
\* least one whitespace character and then a character of class C
KwStarts(s, kw, C) ==
    {i \in Occurrences(s, kw, 1) :
        LET w == RunEnd(s, i + Len(kw), Space)
        IN  w >= i + Len(kw) /\ w < Len(s) /\ s[w + 1] \in C}

\* the first character of the name that follows the keyword at position i
NameStart(s, i, kw) == RunEnd(s, i + Len(kw), Space) + 1

\* pattern.search(s).group(1) for  kw\s+(CR*)  with the character classes C and
\* R (\w+ is C = R = Word); <<>> when the pattern does not match
KwName(s, kw, C, R) ==
    IF KwStarts(s, kw, C) = {} THEN <<>>
    ELSE LET b == NameStart(s, Min(KwStarts(s, kw, C)), kw)
         IN  SubSeq(s, b, RunEnd(s, b, R))

\* \s*< follows position e
GenericFollows(s, e) ==
    LET w == RunEnd(s, e + 1, Space) IN w < Len(s) /\ s[w + 1] = "<"

\* group(1) of  class\s+(\w+)(?!\s*<)  tried at the occurrence i of "class": the
\* whole name when no \s*< follows it; otherwise the regex engine backtracks \w+
\* by one character, after which the lookahead sees a name character and succeeds;
\* <<>> when the name has one character only (no match at i)
ClassNameAt(s, i) ==
    LET b == NameStart(s, i, <<"c","l","a","s","s">>)
        e == RunEnd(s, b, Word)
    IN  IF ~GenericFollows(s, e) THEN SubSeq(s, b, e)
        ELSE IF e > b THEN SubSeq(s, b, e - 1)
        ELSE <<>>

\* pattern.search(s).group(1) for  class\s+(\w+)(?!\s*<) ; <<>> when no match.
\* An optional access-level prefix before "class" does not change group(1).
ClassNotGeneric(s) ==
    LET ok == {i \in KwStarts(s, <<"c","l","a","s","s">>, Word) : ClassNameAt(s, i) # <<>>}
    IN  IF ok = {} THEN <<>> ELSE ClassNameAt(s, Min(ok))

-----------------------------------------------------------------------------
(* SwiftParser: text cleaning and the tag parser *)

\* '///'
T_SlashDoc == <<"/","/","/">>

\* '/**'
T_BlockOpen == <<"/","*","*">>

\* '*/'
T_BlockClose == <<"*","/">>

\* line.strip().startswith('///')
IsSlashDoc(line) == StartsWith(Strip(line), T_SlashDoc)

\* line.strip().startswith('/**')
IsBlockStart(line) == StartsWith(Strip(line), T_BlockOpen)

\* not line.strip()
IsBlank(line) == Strip(line) = <<>>

\* re.sub(r'^\s*\*\s*', '', text): leading whitespace, one '*', whitespace
StripLeadStar(text) ==
    LET w == RunEnd(text, 1, Space)
    IN  IF w < Len(text) /\ text[w + 1] = "*"
        THEN From(text, RunEnd(text, w + 2, Space) + 1)
        ELSE text

\* re.sub(r'^\s*///\s*', '', line)
StripLeadSlashes(line) ==
    LET w == RunEnd(line, 1, Space)
    IN  IF At(line, w + 1, T_SlashDoc)
        THEN From(line, RunEnd(line, w + 4, Space) + 1)
        ELSE line

\* re.sub(r'^\s*/\*\*\s*|\s*\*/\s*$', '', text) for a text that starts with '/**':
\* the first alternative removes the opening marker and the whitespace after it;
\* the second removes a closing marker that only whitespace follows, with the
\* whitespace before it, when it lies after the first match
StripBlockMarkers(text) ==
    LET after == RunEnd(text, 4, Space) + 1
        t     == RStrip(text)
        q     == Len(t) - 1
    IN  IF q >= after /\ At(t, q, T_BlockClose)
        THEN RStrip(SubSeq(text, after, q - 1))
        ELSE From(text, after)

\* the lines of the '///' branch of _clean_description: empty lines at the
\* start are skipped
DropLeadingBlank(ls) ==
    LET full == {k \in 1..Len(ls) : Strip(ls[k]) # <<>>}
    IN  IF full = {} THEN <<>> ELSE SubSeq(ls, Min(full), Len(ls))

\* SwiftParser._clean_description
SwiftCleanDescription(text) ==
    IF StartsWith(text, T_BlockOpen)
    THEN LET ls == Split(StripBlockMarkers(text), <<NL>>)
         IN  Strip(Join([i \in 1..Len(ls) |-> RStrip(StripLeadStar(ls[i]))], <<NL>>))
    ELSE LET ls   == Split(text, <<NL>>)
             cl   == [i \in 1..Len(ls) |-> StripLeadSlashes(ls[i])]
             kept == DropLeadingBlank(cl)
         IN  Strip(Join([i \in 1..Len(kept) |-> RStrip(kept[i])], <<NL>>))

\* re.split(r'\n##\s+', text)
RECURSIVE SplitSections(_)
SplitSections(s) ==
    LET starts == {i \in Occurrences(s, <<NL,"#","#">>, 1) :
                       i + 3 <= Len(s) /\ s[i + 3] \in Space}
    IN  IF starts = {} THEN <<s>>
        ELSE LET i == Min(starts)
             IN  <<SubSeq(s, 1, i - 1)>>
                     \o SplitSections(From(s, RunEnd(s, i + 3, Space) + 1))

\* self.tag_patterns.keys(), in insertion order
TagKeys ==
    << <<"P","a","r","a","m","e","t","e","r","s">>,
       <<"R","e","t","u","r","n","s">>,
       <<"T","h","r","o","w","s">>,
       <<"N","o","t","e">>,
       <<"W","a","r","n","i","n","g">>,
       <<"I","m","p","o","r","t","a","n","t">>,
       <<"S","e","e","A","l","s","o">>,
       <<"P","r","e","c","o","n","d","i","t","i","o","n">>,
       <<"P","o","s","t","c","o","n","d","i","t","i","o","n">> ,
       <<"C","a","s","e">> >>

\* what the label part of self.tag_patterns[key] may spell: 'Parameters?' and
\* 'Returns?' make the final s optional, the other labels are literal
TagLabels(key) ==
    IF key \in {TagKeys[1], TagKeys[2]}
    THEN {key, SubSeq(key, 1, Len(key) - 1)}
    ELSE {key}

\* the lookahead  -\s+(?:Parameters|Returns|...|Case)\s*:  at position i
TagAhead(s, i) ==
    /\ i <= Len(s)
    /\ s[i] = "-"
    /\ LET w == RunEnd(s, i + 1, Space)
       IN  /\ w >= i + 1
           /\ \E k \in 1..Len(TagKeys) :
                 /\ At(s, w + 1, TagKeys[k])
                 /\ LET c == RunEnd(s, w + 1 + Len(TagKeys[k]), Space)
                    IN  c < Len(s) /\ s[c + 1] = ":"

\* re.split(r'\n(?=(?:-\s+(?:' + '|'.join(keys) + r')\s*:))', s)
RECURSIVE TagSplit(_)
TagSplit(s) ==
    LET cuts == {i \in 1..Len(s) : s[i] = NL /\ TagAhead(s, i + 1)}
    IN  IF cuts = {} THEN <<s>>
        ELSE LET i == Min(cuts)
             IN  <<SubSeq(s, 1, i - 1)>> \o TagSplit(From(s, i + 1))

\* a match of  -\s*label\s*:  at position i: the position of its ':', 0 if none
TagHeadEnd(s, i, labels) ==
    IF i > Len(s) \/ s[i] # "-" THEN 0
    ELSE LET w  == RunEnd(s, i + 1, Space)
             ok == {l \in labels :
                       /\ At(s, w + 1, l)
                       /\ LET c == RunEnd(s, w + 1 + Len(l), Space)
                          IN  c < Len(s) /\ s[c + 1] = ":"}
         IN  IF ok = {} THEN 0
             ELSE RunEnd(s, w + 1 + Len(CHOOSE l \in ok : TRUE), Space) + 1

\* [m.group(1).strip() for m in re.finditer(r'-\s*label\s*:([^-]*)', s)], the
\* search resuming at position from
RECURSIVE TagContents(_, _, _)
TagContents(s, from, labels) ==
    LET starts == {i \in from..Len(s) : TagHeadEnd(s, i, labels) > 0}
    IN  IF starts = {} THEN <<>>
        ELSE LET c == TagHeadEnd(s, Min(starts), labels)
                 e == RunEndNot(s, c + 1, {"-"})
             IN  <<Strip(SubSeq(s, c + 1, e))>> \o TagContents(s, e + 1, labels)

\* a match of self.parameter_pattern  -\s*(\w+)\s*:([^-]*)  at position i: the
\* position of its ':', 0 if none
ParamHeadEnd(s, i) ==
    IF i > Len(s) \/ s[i] # "-" THEN 0
    ELSE LET w == RunEnd(s, i + 1, Space)
             e == RunEnd(s, w + 1, Word)
             c == RunEnd(s, e + 1, Space)
         IN  IF e >= w + 1 /\ c < Len(s) /\ s[c + 1] = ":" THEN c + 1 ELSE 0

\* the entries appended for self.parameter_pattern.finditer(s)
RECURSIVE ParamMatches(_, _)
ParamMatches(s, from) ==
    LET starts == {i \in from..Len(s) : ParamHeadEnd(s, i) > 0}
    IN  IF starts = {} THEN <<>>
        ELSE LET i == Min(starts)
                 w == RunEnd(s, i + 1, Space)
                 c == ParamHeadEnd(s, i)
                 e == RunEndNot(s, c + 1, {"-"})
             IN  <<[name |-> SubSeq(s, w + 1, RunEnd(s, w + 1, Word)),
                    description |-> Strip(SubSeq(s, c + 1, e))]>>
                     \o ParamMatches(s, e + 1)

\* re.match(r'(\w+):\s*(.+)', content) of the 'Case' tag, content being stripped:
\* the entries appended (none when there is no match)
CaseTagEntry(txt) ==
    LET e == RunEnd(txt, 1, Word)
    IN  IF e >= 1 /\ e < Len(txt) /\ txt[e + 1] = ":"
        THEN LET b == RunEnd(txt, e + 2, Space) + 1
             IN  IF b > Len(txt) THEN <<>>
                 ELSE <<[name |-> SubSeq(txt, 1, e),
                         description |->
                             Strip(SubSeq(txt, b, RunEndNot(txt, b, {NL})))]>>
        ELSE <<>>

\* re.match(r'-\s*BQ(\w+)BQ\s*:\s*(.+)' (BQ: the backquote), line) for a stripped line of a Cases
\* section: the entries appended (none when there is no match)
CaseLineEntry(line) ==
    IF line = <<>> \/ line[1] # "-" THEN <<>>
    ELSE LET w == RunEnd(line, 2, Space)
         IN  IF ~(w < Len(line) /\ line[w + 1] = BQ) THEN <<>>
             ELSE LET e == RunEnd(line, w + 2, Word)
                  IN  IF ~(e >= w + 2 /\ e < Len(line) /\ line[e + 1] = BQ) THEN <<>>
                      ELSE LET c == RunEnd(line, e + 2, Space)
                           IN  IF ~(c < Len(line) /\ line[c + 1] = ":") THEN <<>>
                               ELSE LET b == RunEnd(line, c + 2, Space) + 1
                                    IN  IF b > Len(line) THEN <<>>
                                        ELSE <<[name |-> SubSeq(line, w + 2, e),
                                                description |-> Strip(From(line, b))]>>

\* [block.strip() for block in re.findall(r'BQBQBQswift\n(.*?)BQBQBQ', s, re.DOTALL)]
RECURSIVE SwiftCodeBlocks(_, _)
SwiftCodeBlocks(s, from) ==
    LET open   == <<BQ,BQ,BQ,"s","w","i","f","t",NL>>
        starts == {i \in Occurrences(s, open, from) :
                      Occurrences(s, <<BQ,BQ,BQ>>, i + Len(open)) # {}}
    IN  IF starts = {} THEN <<>>
        ELSE LET i == Min(starts)
                 j == Min(Occurrences(s, <<BQ,BQ,BQ>>, i + Len(open)))
             IN  <<Strip(SubSeq(s, i + Len(open), j - 1))>> \o SwiftCodeBlocks(s, j + 3)

\* tag.lower() + 's', the key _parse_tags looks up in doc_block
TagListKey(key) == ToLower(key) \o <<"s">>

\* the text entries _parse_tags appends to doc_block[field], field spelled
\* fieldKey: those of every tag other than Parameters and Case whose
\* tag.lower() + 's' is that key, in the order of self.tag_patterns
TextTags(tags_text, fieldKey) ==
    Concat([k \in 1..Len(TagKeys) |->
        IF k \notin {1, Len(TagKeys)} /\ TagListKey(TagKeys[k]) = fieldKey
        THEN LET cs == TagContents(tags_text, 1, TagLabels(TagKeys[k]))
             IN  [i \in 1..Len(cs) |-> [text |-> cs[i]]]
        ELSE <<>>])

\* the entries _parse_tags appends to doc_block['parameters']
TagParameters(tags_text) ==
    LET cs == TagContents(tags_text, 1, TagLabels(TagKeys[1]))
    IN  Concat([i \in 1..Len(cs) |-> ParamMatches(cs[i], 1)])

\* the entries _parse_tags appends to doc_block['cases']
TagCases(tags_text) ==
    LET cs == TagContents(tags_text, 1, TagLabels(TagKeys[Len(TagKeys)]))
    IN  Concat([i \in 1..Len(cs) |-> CaseTagEntry(cs[i])])

\* a section of sections[1:] that the loops over sections do not skip: it is not
\* blank and has a title line and a content; <<title.lower(), content>>
SectionParts(section) ==
    IF Strip(section) = <<>> \/ Len(Split1(section, <<NL>>)) < 2 THEN <<>>
    ELSE <<ToLower(Split1(section, <<NL>>)[1]), Split1(section, <<NL>>)[2]>>

\* doc_block['examples'] after the loop over sections[1:]: the code blocks of the
\* last 'example' section that has any; <<>> when the key is never set
SectionExamples(sections) ==
    LET hits == {k \in 2..Len(sections) :
                    /\ SectionParts(sections[k]) # <<>>
                    /\ SectionParts(sections[k])[1] = <<"e","x","a","m","p","l","e">>
                    /\ SwiftCodeBlocks(SectionParts(sections[k])[2], 1) # <<>>}
    IN  IF hits = {} THEN <<>>
        ELSE SwiftCodeBlocks(SectionParts(sections[Max(hits)])[2], 1)

\* the entries the 'parameters' sections append to doc_block['parameters']
SectionParameters(sections) ==
    Concat([k \in 1..Len(sections) |->
        IF /\ k >= 2
           /\ SectionParts(sections[k]) # <<>>
           /\ SectionParts(sections[k])[1] = <<"p","a","r","a","m","e","t","e","r","s">>
        THEN ParamMatches(SectionParts(sections[k])[2], 1)
        ELSE <<>>])

\* the entries the 'cases' sections append to doc_block['cases']: one for each
\* line of content.strip().split('\n') that matches the case-line pattern
SectionCases(sections) ==
    Concat([k \in 1..Len(sections) |->
        IF /\ k >= 2
           /\ SectionParts(sections[k]) # <<>>
           /\ SectionParts(sections[k])[1] = <<"c","a","s","e","s">>
        THEN LET ls == Split(Strip(SectionParts(sections[k])[2]), <<NL>>)
             IN  Concat([i \in 1..Len(ls) |-> CaseLineEntry(Strip(ls[i]))])
        ELSE <<>>])

\* tags_text = '\n'.join(parts[1:]) when there are tags ('' stands for none)
TagsText(parts) == IF Len(parts) > 1 THEN Join(Tail(parts), <<NL>>) ELSE <<>>

\* the doc_block _parse_doc_block fills, from the sections of the cleaned text
\* and the parts of its first section; the key 'examples', set only when code
\* blocks are found, is modelled as <<>> when absent (every reader uses
\* .get(.., []))
SwiftDocFields(sections, parts) ==
    [description    |-> Strip(parts[1]),
     parameters     |-> TagParameters(TagsText(parts)) \o SectionParameters(sections),
     returns        |-> TextTags(TagsText(parts), <<"r","e","t","u","r","n","s">>),
     throws         |-> TextTags(TagsText(parts), <<"t","h","r","o","w","s">>),
     notes          |-> TextTags(TagsText(parts), <<"n","o","t","e","s">>),
     warnings       |-> TextTags(TagsText(parts), <<"w","a","r","n","i","n","g","s">>),
     important      |-> TextTags(TagsText(parts), <<"i","m","p","o","r","t","a","n","t">>),
     see_also       |-> TextTags(TagsText(parts), <<"s","e","e","_","a","l","s","o">>),
     preconditions  |-> TextTags(TagsText(parts),
                               <<"p","r","e","c","o","n","d","i","t","i","o","n","s">>),
     postconditions |-> TextTags(TagsText(parts),
                               <<"p","o","s","t","c","o","n","d","i","t","i","o","n","s">>),
     cases          |-> TagCases(TagsText(parts)) \o SectionCases(sections),
     examples       |-> SectionExamples(sections)]

\* _parse_doc_block from the split into sections on
SwiftParseSections(sections) ==
    SwiftDocFields(sections, TagSplit(Strip(sections[1])))

\* SwiftParser._parse_doc_block
SwiftParseDocBlock(doc_text) ==
    SwiftParseSections(SplitSections(SwiftCleanDescription(doc_text)))

\* the special case of _detect_code_element: group(1) of
\* (?:public\s+|private\s+|internal\s+|fileprivate\s+)?class\s+(\w+)\s*<
SwiftGenericClass(code_line) ==
    LET ok == {i \in KwStarts(code_line, <<"c","l","a","s","s">>, Word) :
                  GenericFollows(code_line,
                      RunEnd(code_line, NameStart(code_line, i, <<"c","l","a","s","s">>), Word))}
    IN  IF ok = {} THEN <<>>
        ELSE LET b == NameStart(code_line, Min(ok), <<"c","l","a","s","s">>)
             IN  SubSeq(code_line, b, RunEnd(code_line, b, Word))

\* group(1) of the 'property' pattern (?:private\(set\)\s+)?(?:var|let)\s+(\w+):
\* the name after the leftmost of 'var' and 'let' that a name follows
SwiftPropertyName(code_line) ==
    LET v == KwStarts(code_line, <<"v","a","r">>, Word)
        l == KwStarts(code_line, <<"l","e","t">>, Word)
    IN  IF v \cup l = {} THEN <<>>
        ELSE LET b == NameStart(code_line, Min(v \cup l), <<"v","a","r">>)
             IN  SubSeq(code_line, b, RunEnd(code_line, b, Word))

\* self.code_patterns of SwiftParser, in insertion order: <<element_type, group(1)
\* of pattern.search(code_line)>>, the group being <<>> when there is no match
SwiftCodePatterns(code_line) ==
    << <<"class",    ClassNotGeneric(code_line)>>,
       <<"function", KwName(code_line, <<"f","u","n","c">>, IdentStart, IdentStart \cup Digit)>>,
       <<"property", SwiftPropertyName(code_line)>>,
       <<"enum",     KwName(code_line, <<"e","n","u","m">>, Word, Word)>>,
       <<"case",     KwName(code_line, <<"c","a","s","e">>, Word, Word)>>,
       <<"type",     KwName(code_line, <<"c","l","a","s","s">>, Word, Word)>> >>

\* the result of iterating an ordered pattern table: the first pattern that
\* matches gives (element_type, name); (None, None) is <<"none", <<>>>>
FirstMatch(table) ==
    LET hit == {k \in 1..Len(table) : table[k][2] # <<>>}
    IN  IF hit = {} THEN <<"none", <<>>>> ELSE table[Min(hit)]

\* SwiftParser._detect_code_element
SwiftDetectCodeElement(code_line) ==
    IF SwiftGenericClass(code_line) # <<>>
    THEN <<"type", SwiftGenericClass(code_line)>>
    ELSE FirstMatch(SwiftCodePatterns(code_line))

\* self.plural_map of SwiftParser
SwiftPluralMap(element_type) ==
    CASE element_type = "class"    -> "classes"
      [] element_type = "function" -> "functions"
      [] element_type = "property" -> "properties"
      [] element_type = "enum"     -> "enums"
      [] element_type = "case"     -> "cases"
      [] element_type = "type"     -> "types"

\* _process_doc_block, element_type 'case': the first non-blank line of the
\* cleaned text, stripped, replaces the description (kept when there is none)
CaseDescription(doc_text, old) ==
    LET ls   == Split(SwiftCleanDescription(doc_text), <<NL>>)
        full == {k \in 1..Len(ls) : Strip(ls[k]) # <<>>}
    IN  IF full = {} THEN old ELSE Strip(ls[Min(full)])

\* _process_doc_block, element_type in property, function, enum, type, class:
\* the description is the text before the first tag of the first section
MainDescription(doc_text) ==
    Strip(TagSplit(Strip(SplitSections(SwiftCleanDescription(doc_text))[1]))[1])

\* the doc_block that _process_doc_block appends for a classified anchor
SwiftDocBlock(doc_text, element_type, name) ==
    LET parsed == SwiftParseDocBlock(doc_text)
        sects  == SplitSections(SwiftCleanDescription(doc_text))
    IN  [parsed EXCEPT
            !.description = IF element_type = "case"
                            THEN CaseDescription(doc_text, @)
                            ELSE MainDescription(doc_text),
            !.examples    = IF element_type # "case" /\ SectionExamples(sects) # <<>>
                            THEN SectionExamples(sects)
                            ELSE @]
        @@ [name |-> name]

\* _process_doc_block from 'if element_type and name' on, el being the pair
\* _detect_code_element returned
SwiftAppendBlock(el, doc_text, doc) ==
    IF el[1] # "none" /\ el[2] # <<>>
    THEN AppendItem(doc, SwiftPluralMap(el[1]), SwiftDocBlock(doc_text, el[1], el[2]))
    ELSE doc

\* SwiftParser._process_doc_block: the documentation dict after the call
SwiftProcessDocBlock(doc_text, code_line, doc) ==
    SwiftAppendBlock(SwiftDetectCodeElement(code_line), doc_text, doc)

-----------------------------------------------------------------------------
(* SwiftParser: the scanner of _parse_file_to_dict and parse_file *)

\* Line indices are 0-based as in the code; ls[i + 1] is lines[i].

\* the bucket names of the documentation dict, in insertion order
SwiftBuckets == <<"classes", "functions", "properties", "enums", "cases", "types">>

\* the inner loop that collects '///' lines: the index of the first line after
\* index i that does not start with '///' (len(lines) when there is none)
SlashDocEnd(ls, i) ==
    Min({j \in (i + 1)..Len(ls) : j = Len(ls) \/ ~IsSlashDoc(ls[j + 1])})

\* the inner loop that collects a '/**' comment opened at line i: it starts at
\* line i + 1 and stops after the first line that contains '*/'
BlockDocEnd(ls, i) ==
    LET closing == {j \in (i + 1)..(Len(ls) - 1) : Contains(ls[j + 1], T_BlockClose)}
    IN  IF closing = {} THEN Len(ls) ELSE Min(closing) + 1

\* the loop that skips empty lines from index j on
SkipBlank(ls, j) ==
    Min({k \in j..Len(ls) : k = Len(ls) \/ ~IsBlank(ls[k + 1])})

\* a variant of the scanner without the end-of-file check
NoEndCheck(ls, idx) == FALSE

\* 'if line_index >= len(lines): break'
ReachedEnd(ls, idx) == idx >= Len(ls)

\* the '///' branch processes the block only when the code line does not itself
\* start a doc comment
SlashAnchorAccepted(code_line) == ~IsSlashDoc(code_line) /\ ~IsBlockStart(code_line)

\* one iteration of the scanning loop on a doc block whose lines are
\* first..(after - 1): skip blank lines, stop at the end of the file, else take
\* the code line and, when accepted, process the block; then step over the code
\* line. lines[line_index] beyond the last line raises IndexError.
SwiftBlockStep(kind, first, after) ==
    LET e2 == SkipBlank(lines, after)
    IN  IF ReachedEnd(lines, e2)
        THEN /\ pc' = "break"
             /\ line_index' = e2
             /\ block' = [kind |-> kind, first |-> first, last |-> after - 1,
                          anchor |-> -1, processed |-> FALSE, resume |-> e2,
                          doc_text |-> Join(SubSeq(lines, first + 1, after), <<NL>>)]
             /\ UNCHANGED <<documentation, origins, raised>>
        ELSE IF e2 >= Len(lines)
        THEN /\ pc' = "done"
             /\ raised' = TRUE
             /\ UNCHANGED <<line_index, block, documentation, origins>>
        ELSE LET code_line == lines[e2 + 1]
                 doc_text  == Join(SubSeq(lines, first + 1, after), <<NL>>)
                 accepted  == kind = "block" \/ SlashAnchorAccepted(code_line)
             IN  /\ pc' = "scan"
                 /\ line_index' = e2 + 1
                 /\ block' = [kind |-> kind, first |-> first, last |-> after - 1,
                              anchor |-> e2, processed |-> accepted, resume |-> e2 + 1,
                              doc_text |-> doc_text]
                 /\ documentation' =
                        IF accepted
                        THEN SwiftProcessDocBlock(doc_text, code_line, documentation)
                        ELSE documentation
                 /\ origins' =
                        [b \in DOMAIN origins |->
                            IF Len(documentation'[b]) > Len(documentation[b])
                            THEN Append(origins[b], first)
                            ELSE origins[b]]
                 /\ UNCHANGED raised

\* loop iteration, 'if line.strip().startswith("///")'
SwiftLineDoc ==
    /\ parser = "swift" /\ pc = "scan"
    /\ line_index < Len(lines)
    /\ IsSlashDoc(lines[line_index + 1])
    /\ SwiftBlockStep("slash", line_index, SlashDocEnd(lines, line_index))
    /\ UNCHANGED <<calls, parser, content, lines, pos, doc_blocks, block_index,
                   diagnostics, doc_items>>

\* loop iteration, 'elif line.strip().startswith("/**")'
SwiftBlockDoc ==
    /\ parser = "swift" /\ pc = "scan"
    /\ line_index < Len(lines)
    /\ ~IsSlashDoc(lines[line_index + 1])
    /\ IsBlockStart(lines[line_index + 1])
    /\ SwiftBlockStep("block", line_index, BlockDocEnd(lines, line_index))
    /\ UNCHANGED <<calls, parser, content, lines, pos, doc_blocks, block_index,
                   diagnostics, doc_items>>

\* a variant of the else branch that forgets to move on
SameLine(idx) == idx

\* 'line_index += 1' of the else branch
NextLine(idx) == idx + 1

\* loop iteration, 'else': not a doc comment, move to the next line
SwiftOtherLine ==
    /\ parser = "swift" /\ pc = "scan"
    /\ line_index < Len(lines)
    /\ ~IsSlashDoc(lines[line_index + 1])
    /\ ~IsBlockStart(lines[line_index + 1])
    /\ line_index' = NextLine(line_index)
    /\ UNCHANGED <<calls, parser, content, pc, lines, pos, doc_blocks, block_index,
                   documentation, origins, block, diagnostics, raised, doc_items>>

\* the loop ends (its condition fails, or a break): return documentation
SwiftReturnDict ==
    /\ parser = "swift"
    /\ \/ pc = "scan" /\ line_index >= Len(lines)
       \/ pc = "break"
    /\ pc' = "dict"
    /\ UNCHANGED <<calls, parser, content, lines, line_index, pos, doc_blocks, block_index,
                   documentation, origins, block, diagnostics, raised, doc_items>>

\* the item type parse_file derives from the section name
SwiftItemType(section_type) ==
    CASE section_type = "classes"    -> "class"
      [] section_type = "functions"  -> "function"
      [] section_type = "properties" -> "property"
      [] section_type = "enums"      -> "enum"
      [] section_type = "cases"      -> "case"
      [] OTHER                       -> "unknown"

\* 'Unknown'
T_Unknown == <<"U","n","k","n","o","w","n">>

\* the DocItem parse_file builds from one dictionary entry (None is "None";
\* source_file, the path of the file, is left out)
SwiftDocItem(section_type, item) ==
    [name        |-> IF "name" \in DOMAIN item THEN item.name ELSE T_Unknown,
     type        |-> SwiftItemType(section_type),
     description |-> IF "description" \in DOMAIN item THEN item.description ELSE <<>>,
     signature   |-> IF "signature" \in DOMAIN item THEN item.signature ELSE "None",
     params      |-> IF "params" \in DOMAIN item THEN item.params ELSE <<>>,
     returns     |-> IF "returns" \in DOMAIN item THEN item.returns ELSE "None",
     examples    |-> IF "examples" \in DOMAIN item THEN item.examples ELSE <<>>,
     line_number |-> "None"]

\* the list parse_file returns: the items of every section, section by section
SwiftDocItems(doc_dict) ==
    Concat([k \in 1..Len(SwiftBuckets) |->
        [i \in 1..Len(doc_dict[SwiftBuckets[k]]) |->
            SwiftDocItem(SwiftBuckets[k], doc_dict[SwiftBuckets[k]][i])]])

\* SwiftParser.parse_file: convert the dict into the list of DocItem
SwiftParseFile ==
    /\ parser = "swift" /\ pc = "dict"
    /\ doc_items' = SwiftDocItems(documentation)
    /\ pc' = "done"
    /\ UNCHANGED <<calls, parser, content, lines, line_index, pos, doc_blocks, block_index,
                   documentation, origins, block, diagnostics, raised>>

NextSwift == SwiftLineDoc \/ SwiftBlockDoc \/ SwiftOtherLine \/ SwiftReturnDict
                 \/ SwiftParseFile

-----------------------------------------------------------------------------
(* Swift input files *)

\* '\x0c/// a'
SW_Doc ==
    <<"\f","/","/","/"," ","a">>

\* '/// b\n/// c\nfunc f()'
SW_DocFunc ==
    <<"/","/","/"," ","b","\n","/","/","/"," ","c","\n","f","u","n","c"," ","f","(",")">>

\* '/// k\nclass Café'
SW_DocClass ==
    <<"/","/","/"," ","k","\n","c","l","a","s","s"," ","C","a","f","é">>

\* ''
SW_Blank ==
    <<>>

\* '/** d */'
SW_OneLine ==
    <<"/","*","*"," ","d"," ","*","/">>

\* '/**\n * let e\n */'
SW_Multi ==
    <<"/","*","*","\n"," ","*"," ","l","e","t"," ","e","\n"," ","*","/">>

\* '/**\n * g'
SW_Open ==
    <<"/","*","*","\n"," ","*"," ","g">>

\* 'class Foo'
SW_Class ==
    <<"c","l","a","s","s"," ","F","o","o">>

\* 'case red'
SW_Case ==
    <<"c","a","s","e"," ","r","e","d">>

\* 'x = 1'
SW_Other ==
    <<"x"," ","="," ","1">>

\* '/// K\n/// ## Cases\n/// - BQrBQ: R\n/// - BQbBQ: B'
SW_Cases ==
    <<"/","/","/"," ","K","\n","/","/","/"," ","#","#"," ","C","a","s","e","s","\n","/","/",
      "/"," ","-"," ",BQ,"r",BQ,":"," ","R","\n","/","/","/"," ","-"," ",BQ,"b",BQ,":"," ",
      "B">>

\* '/// a\n'
SW_DocGap ==
    <<"/","/","/"," ","a","\n">>

\* '/// g\nclass Box<T>'
SW_Generic ==
    <<"/","/","/"," ","g","\n","c","l","a","s","s"," ","B","o","x","<","T",">">>

\* '/// p\n///\n/// q\n/// - Returns: r\n/// - Note: a-b\n/// - Warning: w\nfunc g()'
SW_Tags ==
    <<"/","/","/"," ","p","\n","/","/","/","\n","/","/","/"," ","q","\n","/","/","/"," ","-",
      " ","R","e","t","u","r","n","s",":"," ","r","\n","/","/","/"," ","-"," ","N","o","t","e",
      ":"," ","a","-","b","\n","/","/","/"," ","-"," ","W","a","r","n","i","n","g",":"," ","w",
      "\n","f","u","n","c"," ","g","(",")">>

\* '  /**\n   * m\n   */\n  var v'
SW_Indented ==
    <<" "," ","/","*","*","\n"," "," "," ","*"," ","m","\n"," "," "," ","*","/","\n"," "," ",
      "v","a","r"," ","v">>

\* '/// S\n/// ## Parameters\n/// - a: one\n/// - a: two\nfunc f(a: Int)'
SW_Params ==
    <<"/","/","/"," ","S","\n","/","/","/"," ","#","#"," ","P","a","r","a","m","e","t","e","r",
      "s","\n","/","/","/"," ","-"," ","a",":"," ","o","n","e","\n","/","/","/"," ","-"," ","a",
      ":"," ","t","w","o","\n","f","u","n","c"," ","f","(","a",":"," ","I","n","t",")">>

\* the pieces Swift input files are made of
SwiftSegments ==
    {SW_Doc, SW_DocGap, SW_DocFunc, SW_DocClass, SW_Blank, SW_OneLine, SW_Multi,
     SW_Open, SW_Class, SW_Case, SW_Other, SW_Cases, SW_Generic, SW_Tags, SW_Indented,
     SW_Params}

\* the files made of at most n pieces of S, one after the other on lines of their own
FilesOf(S, n) == {Join(f, <<NL>>) : f \in UNION {[1..k -> S] : k \in 0..n}}

\* an empty documentation dict with the given buckets
EmptyDoc(buckets) == [b \in {buckets[k] : k \in 1..Len(buckets)} |-> <<>>]

\* SwiftParser()._parse_file_to_dict(file) about to enter its scanning loop
InitSwift ==
    /\ parser = "swift"
    /\ content \in FilesOf(SwiftSegments, MaxSwiftSegs)
    /\ lines = Split(content, <<NL>>)
    /\ line_index = 0
    /\ pc = "scan"
    /\ documentation = EmptyDoc(SwiftBuckets)
    /\ origins = EmptyDoc(SwiftBuckets)
    /\ block = [kind |-> "none"]
    /\ pos = 0 /\ doc_blocks = <<>> /\ block_index = 0
    /\ diagnostics = 0 /\ raised = FALSE /\ doc_items = <<>>
    /\ calls = <<>>

SpecSwift == InitSwift /\ [][NextSwift]_vars

\* what an iteration on a doc block whose lines end before index after does to
\* the control state of the loop: break at the end of the file (IndexError
\* without the check), else resume after the code line
SwiftControlStep(after) ==
    IF ReachedEnd(lines, SkipBlank(lines, after))
    THEN pc' = "break" /\ line_index' = SkipBlank(lines, after) /\ UNCHANGED raised
    ELSE IF SkipBlank(lines, after) >= Len(lines)
    THEN pc' = "done" /\ raised' = TRUE /\ UNCHANGED line_index
    ELSE pc' = "scan" /\ line_index' = SkipBlank(lines, after) + 1 /\ UNCHANGED raised

\* the control flow of parse_file: the steps of NextSwift as seen on pc,
\* line_index and raised
SwiftControl ==
    /\ parser = "swift"
    /\ \/ /\ pc = "scan" /\ line_index < Len(lines)
          /\ IsSlashDoc(lines[line_index + 1])
          /\ SwiftControlStep(SlashDocEnd(lines, line_index))
       \/ /\ pc = "scan" /\ line_index < Len(lines)
          /\ ~IsSlashDoc(lines[line_index + 1])
          /\ IsBlockStart(lines[line_index + 1])
          /\ SwiftControlStep(BlockDocEnd(lines, line_index))
       \/ /\ pc = "scan" /\ line_index < Len(lines)
          /\ ~IsSlashDoc(lines[line_index + 1])
          /\ ~IsBlockStart(lines[line_index + 1])
          /\ line_index' = NextLine(line_index)
          /\ UNCHANGED <<pc, raised>>
       \/ /\ \/ pc = "scan" /\ line_index >= Len(lines)
             \/ pc = "break"
          /\ pc' = "dict"
          /\ UNCHANGED <<line_index, raised>>
       \/ /\ pc = "dict"
          /\ pc' = "done"
          /\ UNCHANGED <<line_index, raised>>

\* the interpreter runs parse_file on: while a statement is left to execute,
\* it is executed
FairSwift == SpecSwift /\ WF_<<pc, line_index, raised>>(SwiftControl)

-----------------------------------------------------------------------------
(* KotlinParser *)

\* the bucket names of the documentation dict, in insertion order
KotlinBuckets == <<"classes", "functions", "properties", "enums", "types">>

\* self.kdoc_pattern  /\*\*(.*?)\*/\s*([^\n]*)  (DOTALL): the positions >= from
\* where a match starts, a '/**' that a '*/' follows
KDocStarts(s, from) ==
    {i \in Occurrences(s, T_BlockOpen, from) : Occurrences(s, T_BlockClose, i + 3) # {}}

\* the leftmost match of self.kdoc_pattern at or after from:
\* group(1), group(2), where it starts and its last position
KDocMatch(s, from) ==
    LET i == Min(KDocStarts(s, from))
        j == Min(Occurrences(s, T_BlockClose, i + 3))
        w == RunEnd(s, j + 2, Space)
        e == RunEndNot(s, w + 1, {NL})
    IN  [start |-> i, kdoc |-> SubSeq(s, i + 3, j - 1),
         code |-> SubSeq(s, w + 1, e), end |-> e]

\* re.sub(r'\s*\*\s*$', '', text): a final '*' that only whitespace follows is
\* removed with the whitespace around it
StripTrailStar(text) ==
    LET t == RStrip(text)
    IN  IF t # <<>> /\ t[Len(t)] = "*" THEN RStrip(SubSeq(t, 1, Len(t) - 1)) ELSE text

\* the lines _clean_description keeps: the leading '*' removed, blank lines
\* dropped, each line stripped
RECURSIVE KotlinCleanLines(_)
KotlinCleanLines(ls) ==
    IF ls = <<>> THEN <<>>
    ELSE LET line == StripLeadStar(Head(ls))
         IN  (IF Strip(line) # <<>> THEN <<Strip(line)>> ELSE <<>>)
                 \o KotlinCleanLines(Tail(ls))

\* KotlinParser._clean_description
KotlinCleanDescription(text) ==
    Join(KotlinCleanLines(Split(StripTrailStar(StripLeadStar(text)), <<NL>>)), <<NL>>)

\* a match of  @tag\s+(\w+)\s+(.*?)(?=@|\Z)  at position i: the position before the
\* text group, 0 if there is no match at i
NamedTagHead(s, i, tag) ==
    IF ~At(s, i, tag) THEN 0
    ELSE LET w == RunEnd(s, i + Len(tag), Space)
             e == RunEnd(s, w + 1, Word)
             v == RunEnd(s, e + 1, Space)
         IN  IF w >= i + Len(tag) /\ e >= w + 1 /\ v >= e + 1 THEN v ELSE 0

\* _parse_tag for 'param', 'throws' and 'property'
RECURSIVE NamedTags(_, _, _)
NamedTags(s, from, tag) ==
    LET starts == {i \in from..Len(s) : NamedTagHead(s, i, tag) > 0}
    IN  IF starts = {} THEN <<>>
        ELSE LET i == Min(starts)
                 w == RunEnd(s, i + Len(tag), Space)
                 v == NamedTagHead(s, i, tag)
                 e == RunEndNot(s, v + 1, {"@"})
             IN  <<[name |-> SubSeq(s, w + 1, RunEnd(s, w + 1, Word)),
                    description |-> KotlinCleanDescription(SubSeq(s, v + 1, e))]>>
                     \o NamedTags(s, e + 1, tag)

\* a match of  @tag\s+(.*?)(?=@|\Z)  at position i: the position before the text
\* group, 0 if there is no match at i
TextTagHead(s, i, tag) ==
    IF ~At(s, i, tag) THEN 0
    ELSE LET w == RunEnd(s, i + Len(tag), Space)
         IN  IF w >= i + Len(tag) THEN w ELSE 0

\* _parse_tag for 'return', 'see' and 'sample'
RECURSIVE TextOnlyTags(_, _, _)
TextOnlyTags(s, from, tag) ==
    LET starts == {i \in from..Len(s) : TextTagHead(s, i, tag) > 0}
    IN  IF starts = {} THEN <<>>
        ELSE LET v == TextTagHead(s, Min(starts), tag)
                 e == RunEndNot(s, v + 1, {"@"})
             IN  <<[text |-> KotlinCleanDescription(SubSeq(s, v + 1, e))]>>
                     \o TextOnlyTags(s, e + 1, tag)

\* description = self._clean_description(kdoc.split('@')[0].strip())
KotlinDescription(kdoc) == KotlinCleanDescription(Strip(Split(kdoc, <<"@">>)[1]))

\* the doc_block parse_file builds from a stripped kdoc
KotlinDocBlock(kdoc) ==
    [description |-> KotlinDescription(kdoc),
     parameters  |-> NamedTags(kdoc, 1, <<"@","p","a","r","a","m">>),
     returns     |-> TextOnlyTags(kdoc, 1, <<"@","r","e","t","u","r","n">>),
     throws      |-> NamedTags(kdoc, 1, <<"@","t","h","r","o","w","s">>),
     properties  |-> NamedTags(kdoc, 1, <<"@","p","r","o","p","e","r","t","y">>),
     see_also    |-> TextOnlyTags(kdoc, 1, <<"@","s","e","e">>),
     samples     |-> TextOnlyTags(kdoc, 1, <<"@","s","a","m","p","l","e">>)]

\* group(2) of the 'property' pattern (var|val)\s+(\w+)
KotlinPropertyName(code_line) ==
    LET v == KwStarts(code_line, <<"v","a","r">>, Word)
                 \cup KwStarts(code_line, <<"v","a","l">>, Word)
    IN  IF v = {} THEN <<>>
        ELSE LET b == NameStart(code_line, Min(v), <<"v","a","r">>)
             IN  SubSeq(code_line, b, RunEnd(code_line, b, Word))

\* group(1) of the 'enum' pattern enum\s+class\s+(\w+)
KotlinEnumName(code_line) ==
    LET ok == {i \in KwStarts(code_line, <<"e","n","u","m">>, {"c"}) :
                  NameStart(code_line, i, <<"e","n","u","m">>)
                      \in KwStarts(code_line, <<"c","l","a","s","s">>, Word)}
    IN  IF ok = {} THEN <<>>
        ELSE LET c == NameStart(code_line, Min(ok), <<"e","n","u","m">>)
                 b == NameStart(code_line, c, <<"c","l","a","s","s">>)
             IN  SubSeq(code_line, b, RunEnd(code_line, b, Word))

\* class\s+(\w+)\s*<\s*(\w+)\s*> matches at the occurrence i of 'class'
GenericTypeAt(s, i) ==
    LET b  == NameStart(s, i, <<"c","l","a","s","s">>)
        e  == RunEnd(s, b, Word)
        w  == RunEnd(s, e + 1, Space)
    IN  /\ w < Len(s) /\ s[w + 1] = "<"
        /\ LET w2 == RunEnd(s, w + 2, Space)
               e2 == RunEnd(s, w2 + 1, Word)
               w3 == RunEnd(s, e2 + 1, Space)
           IN  e2 >= w2 + 1 /\ w3 < Len(s) /\ s[w3 + 1] = ">"

\* group(1) of the 'type' pattern class\s+(\w+)\s*<\s*(\w+)\s*>
KotlinTypeName(code_line) ==
    LET ok == {i \in KwStarts(code_line, <<"c","l","a","s","s">>, Word) :
                  GenericTypeAt(code_line, i)}
    IN  IF ok = {} THEN <<>>
        ELSE LET b == NameStart(code_line, Min(ok), <<"c","l","a","s","s">>)
             IN  SubSeq(code_line, b, RunEnd(code_line, b, Word))

\* self.code_patterns of KotlinParser, in insertion order: <<element_type, the name
\* group of pattern.search(code_line)>>, the group being <<>> when there is no match
KotlinCodePatterns(code_line) ==
    << <<"class",    ClassNotGeneric(code_line)>>,
       <<"function", KwName(code_line, <<"f","u","n">>, Word, Word)>>,
       <<"property", KotlinPropertyName(code_line)>>,
       <<"enum",     KotlinEnumName(code_line)>>,
       <<"type",     KotlinTypeName(code_line)>> >>

\* KotlinParser._detect_code_element
KotlinDetectCodeElement(code_line) == FirstMatch(KotlinCodePatterns(code_line))

\* self.plural_map of KotlinParser
KotlinPluralMap(element_type) ==
    CASE element_type = "class"    -> "classes"
      [] element_type = "function" -> "functions"
      [] element_type = "property" -> "properties"
      [] element_type = "enum"     -> "enums"
      [] element_type = "type"     -> "types"

\* the body of the loop over self.kdoc_pattern.finditer(content): the
\* documentation dict after one match
KotlinProcessMatch(m, doc) ==
    LET el == KotlinDetectCodeElement(Strip(m.code))
    IN  IF el[1] # "none" /\ el[2] # <<>>
        THEN AppendItem(doc, KotlinPluralMap(el[1]),
                        KotlinDocBlock(Strip(m.kdoc)) @@ [name |-> el[2]])
        ELSE doc

\* one iteration of 'for match in self.kdoc_pattern.finditer(content)'
KotlinMatch ==
    /\ parser = "kotlin" /\ pc = "scan"
    /\ KDocStarts(content, pos + 1) # {}
    /\ LET m  == KDocMatch(content, pos + 1)
           el == KotlinDetectCodeElement(Strip(m.code))
       IN  /\ documentation' = KotlinProcessMatch(m, documentation)
           /\ origins' = IF el[1] # "none" /\ el[2] # <<>>
                         THEN [origins EXCEPT ![KotlinPluralMap(el[1])] = Append(@, m.start)]
                         ELSE origins
           /\ block' = [kind |-> "kdoc", first |-> m.start, last |-> m.end,
                        kdoc |-> Strip(m.kdoc), code_line |-> Strip(m.code),
                        detected |-> el]
           /\ pos' = m.end
    /\ UNCHANGED <<calls, parser, content, pc, lines, line_index, doc_blocks, block_index,
                   diagnostics, raised, doc_items>>

\* finditer is exhausted: return documentation
KotlinReturn ==
    /\ parser = "kotlin" /\ pc = "scan"
    /\ KDocStarts(content, pos + 1) = {}
    /\ pc' = "done"
    /\ UNCHANGED <<calls, parser, content, lines, line_index, pos, doc_blocks, block_index,
                   documentation, origins, block, diagnostics, raised, doc_items>>

NextKotlin == KotlinMatch \/ KotlinReturn

-----------------------------------------------------------------------------
(* Kotlin input files *)

\* '/** d */'
KT_Doc ==
    <<"/","*","*"," ","d"," ","*","/">>

\* '/**\n * Computes sum.\n * @param a first\n * @param b second\n * @return total\n */'
KT_Sum ==
    <<"/","*","*","\n"," ","*"," ","C","o","m","p","u","t","e","s"," ","s","u","m",".","\n",
      " ","*"," ","@","p","a","r","a","m"," ","a"," ","f","i","r","s","t","\n"," ","*"," ",
      "@","p","a","r","a","m"," ","b"," ","s","e","c","o","n","d","\n"," ","*"," ","@","r",
      "e","t","u","r","n"," ","t","o","t","a","l","\n"," ","*","/">>

\* '/** One. @return r @param p q */'
KT_One ==
    <<"/","*","*"," ","O","n","e","."," ","@","r","e","t","u","r","n"," ","r"," ","@","p",
      "a","r","a","m"," ","p"," ","q"," ","*","/">>

\* '/**\n * g'
KT_Open ==
    <<"/","*","*","\n"," ","*"," ","g">>

\* ''
KT_Blank ==
    <<>>

\* 'fun add(a: Int, b: Int): Int'
KT_Fun ==
    <<"f","u","n"," ","a","d","d","(","a",":"," ","I","n","t",","," ","b",":"," ","I","n",
      "t",")",":"," ","I","n","t">>

\* 'class Füß'
KT_Class ==
    <<"c","l","a","s","s"," ","F","ü","ß">>

\* 'class Box<T>'
KT_Gen ==
    <<"c","l","a","s","s"," ","B","o","x","<","T",">">>

\* 'class B<T>'
KT_Gen1 ==
    <<"c","l","a","s","s"," ","B","<","T",">">>

\* 'class Box <T>'
KT_GenSp ==
    <<"c","l","a","s","s"," ","B","o","x"," ","<","T",">">>

\* 'enum class Color'
KT_Enum ==
    <<"e","n","u","m"," ","c","l","a","s","s"," ","C","o","l","o","r">>

\* 'val x = 1'
KT_Val ==
    <<"v","a","l"," ","x"," ","="," ","1">>

\* 'x = 1'
KT_Other ==
    <<"x"," ","="," ","1">>

\* '/** c */\nclass Foo'
KT_DocClass ==
    <<"/","*","*"," ","c"," ","*","/","\n","c","l","a","s","s"," ","F","o","o">>

\* '/**\n * Negates\n * a value.\n * @param v value\n * @return result\n */'
KT_Neg ==
    <<"/","*","*","\n"," ","*"," ","N","e","g","a","t","e","s","\n"," ","*"," ","a"," ","v","a",
      "l","u","e",".","\n"," ","*"," ","@","p","a","r","a","m"," ","v"," ","v","a","l","u","e",
      "\n"," ","*"," ","@","r","e","t","u","r","n"," ","r","e","s","u","l","t","\n"," ","*","/">>

\* '/** Zero. @return none */'
KT_Zero ==
    <<"/","*","*"," ","Z","e","r","o","."," ","@","r","e","t","u","r","n"," ","n","o","n","e",
      " ","*","/">>

\* '/**\n * p\n *\n * q\n */\nfun h()'
KT_Para ==
    <<"/","*","*","\n"," ","*"," ","p","\n"," ","*","\n"," ","*"," ","q","\n"," ","*","/","\n",
      "f","u","n"," ","h","(",")">>

\* '/**\n * Mail user@host now.\n * @return ok@x y\n */\nfun m()'
KT_At ==
    <<"/","*","*","\n"," ","*"," ","M","a","i","l"," ","u","s","e","r","@","h","o","s","t"," ",
      "n","o","w",".","\n"," ","*"," ","@","r","e","t","u","r","n"," ","o","k","@","x"," ","y",
      "\n"," ","*","/","\n","f","u","n"," ","m","(",")">>

\* the pieces Kotlin input files are made of
KotlinSegments ==
    {KT_Doc, KT_Sum, KT_Neg, KT_Zero, KT_One, KT_Open, KT_Blank, KT_Fun, KT_Class, KT_Gen, KT_Gen1,
     KT_GenSp, KT_Enum, KT_Val, KT_Other, KT_DocClass, KT_Para, KT_At}

\* KotlinParser().parse_file(file) about to iterate over the KDoc matches
InitKotlin ==
    /\ parser = "kotlin"
    /\ content \in FilesOf(KotlinSegments, MaxKotlinSegs)
    /\ lines = <<>>
    /\ line_index = 0
    /\ pc = "scan"
    /\ documentation = EmptyDoc(KotlinBuckets)
    /\ origins = EmptyDoc(KotlinBuckets)
    /\ block = [kind |-> "none"]
    /\ pos = 0 /\ doc_blocks = <<>> /\ block_index = 0
    /\ diagnostics = 0 /\ raised = FALSE /\ doc_items = <<>>
    /\ calls = <<>>

SpecKotlin == InitKotlin /\ [][NextKotlin]_vars

-----------------------------------------------------------------------------
(* DotNetParser: collecting the '///' blocks *)

\* the bucket names of the documentation dict, in insertion order
DotNetBuckets == <<"classes", "methods", "properties", "enums", "interfaces", "types">>

\* line.strip().startswith('///')
IsXmlDocLine(line) == StartsWith(Strip(line), T_SlashDoc)

\* re.sub(r'^\s*///\s*', '', line)
CleanDocLine(line) ==
    LET w == RunEnd(line, 1, Space)
    IN  IF At(line, w + 1, T_SlashDoc)
        THEN From(line, RunEnd(line, w + 4, Space) + 1)
        ELSE line

\* the loop 'for line in lines' of parse_file and the flush after it: the
\* doc_blocks it builds, current being current_block
RECURSIVE CollectBlocks(_, _)
CollectBlocks(ls, current) ==
    IF ls = <<>>
    THEN IF current # <<>> THEN <<Join(current, <<NL>>)>> ELSE <<>>
    ELSE IF IsXmlDocLine(Head(ls))
    THEN CollectBlocks(Tail(ls), Append(current, CleanDocLine(Head(ls))))
    ELSE IF current # <<>>
    THEN <<Join(current, <<NL>>)>> \o CollectBlocks(Tail(ls), <<>>)
    ELSE CollectBlocks(Tail(ls), <<>>)

\* the 0-based index of the line each block of doc_blocks starts at: a '///' line
\* that no '///' line precedes
BlockStarts(ls) ==
    LET first == {i \in 1..Len(ls) :
                     IsXmlDocLine(ls[i]) /\ (i = 1 \/ ~IsXmlDocLine(ls[i - 1]))}
        nth[k \in 0..Len(ls)] ==
            IF k = 0 THEN 0 ELSE Min({i \in first : i > nth[k - 1]})
    IN  [k \in 1..Cardinality(first) |-> nth[k] - 1]

-----------------------------------------------------------------------------
(* xml.etree.ElementTree.fromstring, as parse_file calls it on a block: the
   expat parser with namespace processing and the TreeBuilder that drops
   comments and processing instructions.  An Element is [tag, attrib, text,
   children]: tag the expanded name ('{uri}local' in a namespace), attrib the
   attributes as <<name, value>> pairs in document order without the
   namespace declarations, text the character data before the first child
   (<<>> for None), children the child Elements.  The internal subset of a
   document type declaration is read: the general entities it declares with
   a replacement text are replaced in content and in attribute values, and
   the attributes it declares get their default and, unless of type CDATA,
   the normalisation of a tokenized value.  An external subset and external
   entities are not read.  expat's limit on the amplification by entities
   concerns expansions of more than 8 MiB, beyond any document here. *)

\* the parse did not succeed: ET.ParseError
XmlFail == [ok |-> FALSE]

\* XML white space
XmlSpace == {" ", "\t", "\r", NL}

\* the characters that start an XML name, other than ':' (XML 1.0 Letter and
\* '_', as expat tabulates them)
XmlNameStart ==
    CharsIn(<<65,90,95,95,97,122,192,214,216,246,248,305,308,318,321,328,330,382,384,451,
              461,496,500,501,506,535,592,680,699,705,902,902,904,906,908,908,910,929,931,
              974,976,982,986,986,988,988,990,990,992,992,994,1011,1025,1036,1038,1103,1105,
              1116,1118,1153,1168,1220,1223,1224,1227,1228,1232,1259,1262,1269,1272,1273,
              1329,1366,1369,1369,1377,1414,1488,1514,1520,1522,1569,1594,1601,1610,1649,
              1719,1722,1726,1728,1742,1744,1747,1749,1749,1765,1766,2309,2361,2365,2365,
              2392,2401,2437,2444,2447,2448,2451,2472,2474,2480,2482,2482,2486,2489,2524,
              2525,2527,2529,2544,2545,2565,2570,2575,2576,2579,2600,2602,2608,2610,2611,
              2613,2614,2616,2617,2649,2652,2654,2654,2674,2676,2693,2699,2701,2701,2703,
              2705,2707,2728,2730,2736,2738,2739,2741,2745,2749,2749,2784,2784,2821,2828,
              2831,2832,2835,2856,2858,2864,2866,2867,2870,2873,2877,2877,2908,2909,2911,
              2913,2949,2954,2958,2960,2962,2965,2969,2970,2972,2972,2974,2975,2979,2980,
              2984,2986,2990,2997,2999,3001,3077,3084,3086,3088,3090,3112,3114,3123,3125,
              3129,3168,3169,3205,3212,3214,3216,3218,3240,3242,3251,3253,3257,3294,3294,
              3296,3297,3333,3340,3342,3344,3346,3368,3370,3385,3424,3425,3585,3630,3632,
              3632,3634,3635,3648,3653,3713,3714,3716,3716,3719,3720,3722,3722,3725,3725,
              3732,3735,3737,3743,3745,3747,3749,3749,3751,3751,3754,3755,3757,3758,3760,
              3760,3762,3763,3773,3773,3776,3780,3904,3911,3913,3945,4256,4293,4304,4342,
              4352,4352,4354,4355,4357,4359,4361,4361,4363,4364,4366,4370,4412,4412,4414,
              4414,4416,4416,4428,4428,4430,4430,4432,4432,4436,4437,4441,4441,4447,4449,
              4451,4451,4453,4453,4455,4455,4457,4457,4461,4462,4466,4467,4469,4469,4510,
              4510,4520,4520,4523,4523,4526,4527,4535,4536,4538,4538,4540,4546,4587,4587,
              4592,4592,4601,4601,7680,7835,7840,7929,7936,7957,7960,7965,7968,8005,8008,
              8013,8016,8023,8025,8025,8027,8027,8029,8029,8031,8061,8064,8116,8118,8124,
              8126,8126,8130,8132,8134,8140,8144,8147,8150,8155,8160,8172,8178,8180,8182,
              8188,8486,8486,8490,8491,8494,8494,8576,8578,12295,12295,12321,12329,12353,
              12436,12449,12538,12549,12588,19968,40869,44032,55203>>)

\* the characters of an XML name other than ':' (XML 1.0 Letter, Digit, '.',
\* '-', '_', CombiningChar and Extender, as expat tabulates them)
XmlNameChar ==
    CharsIn(<<45,46,48,57,65,90,95,95,97,122,183,183,192,214,216,246,248,305,308,318,321,
              328,330,382,384,451,461,496,500,501,506,535,592,680,699,705,720,721,768,837,
              864,865,902,906,908,908,910,929,931,974,976,982,986,986,988,988,990,990,992,
              992,994,1011,1025,1036,1038,1103,1105,1116,1118,1153,1155,1158,1168,1220,1223,
              1224,1227,1228,1232,1259,1262,1269,1272,1273,1329,1366,1369,1369,1377,1414,
              1425,1441,1443,1465,1467,1469,1471,1471,1473,1474,1476,1476,1488,1514,1520,
              1522,1569,1594,1600,1618,1632,1641,1648,1719,1722,1726,1728,1742,1744,1747,
              1749,1768,1770,1773,1776,1785,2305,2307,2309,2361,2364,2381,2385,2388,2392,
              2403,2406,2415,2433,2435,2437,2444,2447,2448,2451,2472,2474,2480,2482,2482,
              2486,2489,2492,2492,2494,2500,2503,2504,2507,2509,2519,2519,2524,2525,2527,
              2531,2534,2545,2562,2562,2565,2570,2575,2576,2579,2600,2602,2608,2610,2611,
              2613,2614,2616,2617,2620,2620,2622,2626,2631,2632,2635,2637,2649,2652,2654,
              2654,2662,2676,2689,2691,2693,2699,2701,2701,2703,2705,2707,2728,2730,2736,
              2738,2739,2741,2745,2748,2757,2759,2761,2763,2765,2784,2784,2790,2799,2817,
              2819,2821,2828,2831,2832,2835,2856,2858,2864,2866,2867,2870,2873,2876,2883,
              2887,2888,2891,2893,2902,2903,2908,2909,2911,2913,2918,2927,2946,2947,2949,
              2954,2958,2960,2962,2965,2969,2970,2972,2972,2974,2975,2979,2980,2984,2986,
              2990,2997,2999,3001,3006,3010,3014,3016,3018,3021,3031,3031,3047,3055,3073,
              3075,3077,3084,3086,3088,3090,3112,3114,3123,3125,3129,3134,3140,3142,3144,
              3146,3149,3157,3158,3168,3169,3174,3183,3202,3203,3205,3212,3214,3216,3218,
              3240,3242,3251,3253,3257,3262,3268,3270,3272,3274,3277,3285,3286,3294,3294,
              3296,3297,3302,3311,3330,3331,3333,3340,3342,3344,3346,3368,3370,3385,3390,
              3395,3398,3400,3402,3405,3415,3415,3424,3425,3430,3439,3585,3630,3632,3642,
              3648,3662,3664,3673,3713,3714,3716,3716,3719,3720,3722,3722,3725,3725,3732,
              3735,3737,3743,3745,3747,3749,3749,3751,3751,3754,3755,3757,3758,3760,3769,
              3771,3773,3776,3780,3782,3782,3784,3789,3792,3801,3864,3865,3872,3881,3893,
              3893,3895,3895,3897,3897,3902,3911,3913,3945,3953,3972,3974,3979,3984,3989,
              3991,3991,3993,4013,4017,4023,4025,4025,4256,4293,4304,4342,4352,4352,4354,
              4355,4357,4359,4361,4361,4363,4364,4366,4370,4412,4412,4414,4414,4416,4416,
              4428,4428,4430,4430,4432,4432,4436,4437,4441,4441,4447,4449,4451,4451,4453,
              4453,4455,4455,4457,4457,4461,4462,4466,4467,4469,4469,4510,4510,4520,4520,
              4523,4523,4526,4527,4535,4536,4538,4538,4540,4546,4587,4587,4592,4592,4601,
              4601,7680,7835,7840,7929,7936,7957,7960,7965,7968,8005,8008,8013,8016,8023,
              8025,8025,8027,8027,8029,8029,8031,8061,8064,8116,8118,8124,8126,8126,8130,
              8132,8134,8140,8144,8147,8150,8155,8160,8172,8178,8180,8182,8188,8400,8412,
              8417,8417,8486,8486,8490,8491,8494,8494,8576,8578,12293,12293,12295,12295,
              12321,12335,12337,12341,12353,12436,12441,12442,12445,12446,12449,12538,12540,
              12542,12549,12588,19968,40869,44032,55203>>)

\* the characters no document may hold: the control characters other than
\* tab, line feed and carriage return (U+0000..U+0008, U+000B, U+000C,
\* U+000E..U+001F), U+FFFE and U+FFFF; U+0000 is written by its code point
XmlIllegal ==
    {"U+0000","","","","","","","","","","\f","","","","","","","","","",
     "","","","","","","","","",
     "U+FFFE","U+FFFF"}

\* the end (i-1 when there is none) of the name without ':' that starts at
\* position i: a letter or '_', then name characters
XmlNCName(s, i) ==
    IF i >= 1 /\ i <= Len(s) /\ s[i] \in XmlNameStart
    THEN RunEnd(s, i, XmlNameChar)
    ELSE i - 1

\* the end (i-1 when there is none) of the element or attribute name that
\* starts at position i, with at most one prefix; 0 when a ':' of it is not
\* followed by a name, or a second ':' follows
XmlName(s, i) ==
    LET \* e: the end of the first part; f: the end of the part after a ':'
        Prefixed(e, f) ==
            IF e < i THEN i - 1
            ELSE IF ~At(s, e + 1, <<":">>) THEN e
            ELSE IF f < e + 2 \/ At(s, f + 1, <<":">>) THEN 0
            ELSE f
    IN  Prefixed(XmlNCName(s, i), XmlNCName(s, XmlNCName(s, i) + 2))

\* the reference that opens with the '&' at position i: the position after its
\* ';', the characters it stands for, and whether it names an entity that is
\* not declared; XmlFail when it is malformed or names no legal character
XmlReference(s, i) ==
    LET RECURSIVE CodePoint(_, _, _)
        \* int(s[a..e], base), capped at 0x110000
        CodePoint(a, e, base) ==
            IF e < a THEN 0
            ELSE Min({1114112, CodePoint(a, e - 1, base) * base +
                               (CHOOSE d \in 0..15 :
                                    s[e] \in {<<"0","1","2","3","4","5","6","7","8","9",
                                                "a","b","c","d","e","f">>[d + 1],
                                              <<"0","1","2","3","4","5","6","7","8","9",
                                                "A","B","C","D","E","F">>[d + 1]})})
        CharOk(n) == \/ n \in {9, 10, 13}
                     \/ n >= 32 /\ n <= 55295
                     \/ n >= 57344 /\ n <= 65533
                     \/ n >= 65536 /\ n <= 1114111
        Numeric(b, e, base) ==
            IF e < b \/ ~At(s, e + 1, <<";">>) THEN XmlFail
            ELSE IF ~CharOk(CodePoint(b, e, base)) THEN XmlFail
            ELSE [ok |-> TRUE, next |-> e + 2, chars |-> <<Chr(CodePoint(b, e, base))>>,
                  undeclared |-> FALSE]
        Named(e) ==
            IF e < i + 1 \/ ~At(s, e + 1, <<";">>) THEN XmlFail
            ELSE LET name == SubSeq(s, i + 1, e)
                 IN  [ok |-> TRUE, next |-> e + 2,
                      chars |-> CASE name = <<"a","m","p">> -> <<"&">>
                                  [] name = <<"l","t">> -> <<"<">>
                                  [] name = <<"g","t">> -> <<">">>
                                  [] name = <<"q","u","o","t">> -> <<"\"">>
                                  [] name = <<"a","p","o","s">> -> <<"'">>
                                  [] OTHER -> <<>>,
                      undeclared |-> name \notin {<<"a","m","p">>, <<"l","t">>, <<"g","t">>, <<"q","u","o","t">>, <<"a","p","o","s">>}]
    IN  IF At(s, i + 1, <<"#", "x">>)
        THEN Numeric(i + 3, RunEnd(s, i + 3, Digit \cup {"a","b","c","d","e","f",
                                                        "A","B","C","D","E","F"}), 16)
        ELSE IF At(s, i + 1, <<"#">>)
        THEN Numeric(i + 2, RunEnd(s, i + 2, Digit), 10)
        ELSE Named(XmlNCName(s, i + 1))

\* the position after the comment ('<!--') or the processing instruction
\* ('<?') that opens at position i; 0 when it is malformed: it does not end,
\* holds an illegal character, a comment holds '--', the target of a
\* processing instruction is not a name or is 'xml' in any case
XmlSkip(s, i) ==
    LET \* the comment, ds being the places of '--' after its start
        Comment(ds) ==
            IF ds = {} THEN 0
            ELSE IF ~At(s, Min(ds) + 2, <<">">>) THEN 0
            ELSE IF \E k \in (i + 4)..(Min(ds) - 1) : s[k] \in XmlIllegal THEN 0
            ELSE Min(ds) + 3
        \* the processing instruction, e being the end of its target and ds
        \* the places of '?>' after that
        Instruction(e, ds) ==
            IF e < i + 2 THEN 0
            ELSE IF /\ e = i + 4 /\ s[i + 2] \in {"x", "X"}
                    /\ s[i + 3] \in {"m", "M"} /\ s[i + 4] \in {"l", "L"} THEN 0
            ELSE IF At(s, e + 1, <<"?", ">">>) THEN e + 3
            ELSE IF e = Len(s) \/ s[e + 1] \notin XmlSpace THEN 0
            ELSE IF ds = {} THEN 0
            ELSE IF \E k \in (e + 1)..(Min(ds) - 1) : s[k] \in XmlIllegal THEN 0
            ELSE Min(ds) + 2
    IN  IF At(s, i, <<"<","!","-","-">>) THEN Comment(Occurrences(s, <<"-", "-">>, i + 4))
        ELSE Instruction(XmlNCName(s, i + 2),
                         Occurrences(s, <<"?", ">">>, XmlNCName(s, i + 2) + 1))

\* the position after the white space, comments and processing instructions
\* that start at position i; 0 when one of them is malformed
RECURSIVE XmlMisc(_, _)
XmlMisc(s, i) ==
    LET p == RunEnd(s, i, XmlSpace) + 1
        \* what follows the comment or processing instruction that ends
        \* before position n
        Skipped(n) == IF n = 0 THEN 0 ELSE XmlMisc(s, n)
    IN  IF At(s, p, <<"<","!","-","-">>) \/ At(s, p, <<"<","?">>) THEN Skipped(XmlSkip(s, p)) ELSE p

\* the XML declaration that opens at position i ('<?xml' and white space):
\* the position after it and whether it says standalone='yes'; next = 0 when
\* it is malformed
XmlDecl(s, i) ==
    LET bad == [next |-> 0, standalone |-> FALSE]
        \* the pseudo-attribute name from position p on: the position after it,
        \* whether it is given, and its value; next = 0 when it is malformed
        Pseudo(p, name) ==
            LET w == RunEnd(s, p, XmlSpace) + 1
                q == RunEnd(s, w + Len(name), XmlSpace) + 1
                v == RunEnd(s, q + 1, XmlSpace) + 1
                e == RunEnd(s, v + 1, Lower \cup Upper \cup Digit \cup {".", "-", "_"})
            IN  IF ~At(s, w, name) THEN [next |-> p, given |-> FALSE, value |-> <<>>]
                ELSE IF w = p \/ ~At(s, q, <<"=">>) THEN [next |-> 0]
                ELSE IF ~(At(s, v, <<"\"">>) \/ At(s, v, <<"'">>)) THEN [next |-> 0]
                ELSE IF ~At(s, e + 1, <<s[v]>>) THEN [next |-> 0]
                ELSE [next |-> e + 2, given |-> TRUE, value |-> SubSeq(s, v + 1, e)]
        \* the end of the declaration, after the pseudo-attribute sa
        Ended(sa) ==
            LET e == RunEnd(s, sa.next, XmlSpace) + 1
            IN  IF sa.next = 0 THEN bad
                ELSE IF sa.given /\ sa.value \notin {<<"y","e","s">>, <<"n","o">>} THEN bad
                ELSE IF ~At(s, e, <<"?", ">">>) THEN bad
                ELSE [next |-> e + 2, standalone |-> sa.given /\ sa.value = <<"y","e","s">>]
        \* the declaration after the pseudo-attribute enc
        Encoded(enc) ==
            IF enc.next = 0 THEN bad
            ELSE IF enc.given /\ (enc.value = <<>> \/ enc.value[1] \notin Lower \cup Upper)
            THEN bad
            ELSE Ended(Pseudo(enc.next, <<"s","t","a","n","d","a","l","o","n","e">>))
        \* the declaration after the pseudo-attribute ver
        Versioned(ver) ==
            IF ver.next = 0 THEN bad
            ELSE IF ~ver.given THEN bad
            ELSE Encoded(Pseudo(ver.next, <<"e","n","c","o","d","i","n","g">>))
    IN  Versioned(Pseudo(i + 5, <<"v","e","r","s","i","o","n">>))

\* the attribute value from position p of s up to the closing quote,
\* normalised (white space to ' ', references replaced), acc being the value
\* so far: the position after the quote and the value.  s is the document, or
\* the replacement text of an entity (internal; quote is "" and the value
\* ends with the text); dtd holds the declarations of the document type,
\* opened the names of the entities being replaced; cdata: the attribute is
\* not declared with a tokenized type, for which no space is kept at the
\* start or after a space
RECURSIVE XmlAttValue(_, _, _, _, _, _, _, _)
XmlAttValue(s, p, quote, dtd, opened, cdata, internal, acc) ==
    LET \* the value so far after a white space character
        Spaced == IF ~cdata /\ (acc = <<>> \/ acc[Len(acc)] = " ") THEN acc
                  ELSE Append(acc, " ")
        \* the value after the reference r, v being the value up to the end
        \* of the replacement text of its entity
        Replaced(r, v) ==
            IF ~v.ok THEN XmlFail
            ELSE XmlAttValue(s, r.next, quote, dtd, opened, cdata, internal, v.value)
        \* the value from the reference r to the entity name on, hits being
        \* the places of its declaration
        Entity(r, name, hits) ==
            IF hits = {}
            THEN IF dtd.peref /\ ~dtd.standalone
                 THEN XmlAttValue(s, r.next, quote, dtd, opened, cdata, internal, acc)
                 ELSE XmlFail
            ELSE IF \E k \in 1..Len(opened) : opened[k] = name THEN XmlFail
            ELSE IF ~dtd.ents[Min(hits)].internal THEN XmlFail
            ELSE Replaced(r, XmlAttValue(dtd.ents[Min(hits)].text, 1, "", dtd,
                                         Append(opened, name), cdata, TRUE, acc))
        \* the value from the reference r on
        Referred(r) ==
            IF ~r.ok THEN XmlFail
            ELSE IF At(s, p + 1, <<"#">>)
            THEN XmlAttValue(s, r.next, quote, dtd, opened, cdata, internal,
                             IF r.chars = <<" ">> THEN Spaced ELSE acc \o r.chars)
            ELSE IF ~r.undeclared
            THEN XmlAttValue(s, r.next, quote, dtd, opened, cdata, internal, acc \o r.chars)
            ELSE Entity(r, SubSeq(s, p + 1, r.next - 2),
                        {k \in 1..Len(dtd.ents) :
                             dtd.ents[k].name = SubSeq(s, p + 1, r.next - 2)})
        \* the value from the run of other characters, which ends at e, on
        Plain(e) == XmlAttValue(s, e + 1, quote, dtd, opened, cdata, internal,
                                acc \o SubSeq(s, p, e))
    IN  IF p > Len(s)
        THEN IF quote = "" THEN [ok |-> TRUE, next |-> p, value |-> acc] ELSE XmlFail
        ELSE IF s[p] = "<" \/ s[p] \in XmlIllegal THEN XmlFail
        ELSE IF s[p] = quote THEN [ok |-> TRUE, next |-> p + 1, value |-> acc]
        ELSE IF s[p] = "&" THEN Referred(XmlReference(s, p))
        ELSE IF ~internal /\ At(s, p, <<"\r", NL>>)
        THEN XmlAttValue(s, p + 2, quote, dtd, opened, cdata, internal, Spaced)
        ELSE IF s[p] \in XmlSpace
        THEN XmlAttValue(s, p + 1, quote, dtd, opened, cdata, internal, Spaced)
        ELSE Plain(RunEndNot(s, p, XmlSpace \cup XmlIllegal \cup {"<", "&", quote}))

\* the document type declaration that opens at position i ('<!DOCTYPE'): the
\* position after it and what it declares; next = 0 when it is malformed.
\* dtd.ents holds the general entities in the order of their first
\* declaration (internal: declared with a replacement text, which is text),
\* dtd.atts the attributes declared for an element (cdata: of type CDATA;
\* given: with a default, which is value), dtd.peref whether the declaration
\* refers to parameter entities (it names an external subset, or its
\* internal subset holds a reference), dtd.kp whether the declarations are
\* still recorded (they are after such a reference only in a standalone
\* document); ent, elem, attr, cdata and conn describe the markup
\* declaration being read
XmlDoctype(s, i, standalone) ==
    LET bad == [next |-> 0]
        In(p, C) == p >= 1 /\ p <= Len(s) /\ s[p] \in C
        PubidChar == Lower \cup Upper \cup Digit \cup
                     {" ", "\r", NL, "-", "'", "(", ")", "+", ",", ".", "/",
                      ":", "=", "?", ";", "!", "*", "#", "@", "$", "_", "%"}
        \* the position after the quoted literal that follows the white space
        \* at position p, 0 when it is malformed; pubid: it is a public identifier
        Quoted(p, pubid) ==
            LET l == RunEnd(s, p, XmlSpace) + 1
                qs == {k \in (l + 1)..Len(s) : s[k] = s[l]}
            IN  IF l = p \/ ~(At(s, l, <<"\"">>) \/ At(s, l, <<"'">>)) THEN 0
                ELSE IF qs = {} THEN 0
                ELSE IF \E k \in (l + 1)..(Min(qs) - 1) :
                            s[k] \in XmlIllegal \/ (pubid /\ s[k] \notin PubidChar)
                THEN 0
                ELSE Min(qs) + 1
        \* a token of the declarations: its kind, the span a..b of its text
        \* and the position after it
        Tok(tok, a, b, next) == [ok |-> TRUE, tok |-> tok, a |-> a, b |-> b, next |-> next]
        \* the literal that opens at position p, qs being the places of the
        \* quote after it
        Literal(p, qs) ==
            IF qs = {} THEN XmlFail
            ELSE IF \E k \in (p + 1)..(Min(qs) - 1) : s[k] \in XmlIllegal THEN XmlFail
            ELSE IF ~In(Min(qs) + 1, XmlSpace \cup {">", "%", "["}) THEN XmlFail
            ELSE Tok("LITERAL", p + 1, Min(qs) - 1, Min(qs) + 1)
        \* the comment or processing instruction at position p, which ends
        \* before position n
        Passed(tok, p, n) == IF n = 0 THEN XmlFail ELSE Tok(tok, p, n - 1, n)
        \* the opening of a markup declaration at position p ('<!'), e being
        \* the end of the letters after it
        DeclOpen(p, e) ==
            IF e < p + 2 THEN XmlFail
            ELSE IF In(e + 1, XmlSpace) THEN Tok("DECL_OPEN", p + 2, e, e + 1)
            ELSE IF /\ At(s, e + 1, <<"%">>)
                    /\ e + 2 <= Len(s) /\ s[e + 2] \notin XmlSpace \cup {"%"}
            THEN Tok("DECL_OPEN", p + 2, e, e + 1)
            ELSE XmlFail
        \* the '%' at position p, e being the end of the name after it
        Percent(p, e) ==
            IF e >= p + 1
            THEN IF At(s, e + 1, <<";">>) THEN Tok("PEREF", p + 1, e, e + 2) ELSE XmlFail
            ELSE IF In(p + 1, XmlSpace \cup {"%"}) THEN Tok("PERCENT", p, p, p + 1)
            ELSE XmlFail
        \* the ')' at position p
        Paren(p) ==
            IF At(s, p + 1, <<"*">>) THEN Tok(")*", p, p + 1, p + 2)
            ELSE IF In(p + 1, {"?", "+"}) THEN Tok(")?", p, p + 1, p + 2)
            ELSE IF In(p + 1, XmlSpace \cup {">", ",", "|", ")"}) THEN Tok(")", p, p, p + 1)
            ELSE XmlFail
        \* the '#' at position p, e being the end of the name after it
        Pound(p, e) ==
            IF e >= p + 1 /\ In(e + 1, XmlSpace \cup {")", ">", "%", "|"})
            THEN Tok("POUND", p + 1, e, e + 1)
            ELSE XmlFail
        \* the name or name token s[p..e], colons being the places of ':' in it
        Name(p, e, colons) ==
            LET tok == IF s[p] \in XmlNameStart /\ colons = {} THEN "NAME"
                       ELSE IF /\ s[p] \in XmlNameStart
                               /\ Cardinality(colons) = 1 /\ colons # {e}
                       THEN "PREFIXED"
                       ELSE "NMTOKEN"
            IN  IF In(e + 1, XmlSpace \cup {">", ")", ",", "|", "[", "%"})
                THEN Tok(tok, p, e, e + 1)
                ELSE IF In(e + 1, {"+", "*", "?"}) /\ tok # "NMTOKEN"
                THEN Tok("NAMEQ", p, e, e + 2)
                ELSE XmlFail
        \* the token at position p, XmlFail when there is none
        Token(p) ==
            IF p > Len(s) THEN XmlFail
            ELSE IF s[p] \in {"\"", "'"} THEN Literal(p, {k \in (p + 1)..Len(s) : s[k] = s[p]})
            ELSE IF At(s, p, <<"<","!","-","-">>) THEN Passed("COMMENT", p, XmlSkip(s, p))
            ELSE IF At(s, p, <<"<","!">>)
            THEN DeclOpen(p, RunEnd(s, p + 2, Lower \cup Upper \cup {"_"}))
            ELSE IF At(s, p, <<"<","?">>) THEN Passed("PI", p, XmlSkip(s, p))
            ELSE IF s[p] \in XmlSpace
            THEN Tok("S", p, RunEnd(s, p, XmlSpace), RunEnd(s, p, XmlSpace) + 1)
            ELSE IF s[p] = "%" THEN Percent(p, XmlNCName(s, p + 1))
            ELSE IF s[p] \in {",", "[", "(", "|", ">"} THEN Tok(s[p], p, p, p + 1)
            ELSE IF s[p] = "]"
            THEN IF At(s, p, <<"]","]",">">>) THEN XmlFail ELSE Tok("]", p, p, p + 1)
            ELSE IF s[p] = ")" THEN Paren(p)
            ELSE IF s[p] = "#" THEN Pound(p, XmlNCName(s, p + 1))
            ELSE IF s[p] \in XmlNameChar \cup {":"}
            THEN Name(p, RunEnd(s, p, XmlNameChar \cup {":"}),
                      {k \in p..RunEnd(s, p, XmlNameChar \cup {":"}) : s[k] = ":"})
            ELSE XmlFail
        \* the grammar of the declarations: in a state, a token (with the
        \* text given, when one is) leads to a state and has an effect
        Trans ==
            {<<"subset", "DECL_OPEN", <<"E","N","T","I","T","Y">>, "entity0", "">>,
             <<"subset", "DECL_OPEN", <<"A","T","T","L","I","S","T">>, "attlist0", "">>,
             <<"subset", "DECL_OPEN", <<"E","L","E","M","E","N","T">>, "element0", "">>,
             <<"subset", "DECL_OPEN", <<"N","O","T","A","T","I","O","N">>, "notation0", "">>,
             <<"subset", "PI", <<>>, "subset", "">>,
             <<"subset", "COMMENT", <<>>, "subset", "">>,
             <<"subset", "PEREF", <<>>, "subset", "peref">>,
             <<"subset", "]", <<>>, "done", "">>,
             <<"entity0", "PERCENT", <<>>, "entity1", "">>,
             <<"entity0", "NAME", <<>>, "entity2", "entity">>,
             <<"entity1", "NAME", <<>>, "entity7", "parameter">>,
             <<"entity2", "NAME", <<"S","Y","S","T","E","M">>, "entity4", "">>,
             <<"entity2", "NAME", <<"P","U","B","L","I","C">>, "entity3", "">>,
             <<"entity2", "LITERAL", <<>>, "declClose", "value">>,
             <<"entity3", "LITERAL", <<>>, "entity4", "pubid">>,
             <<"entity4", "LITERAL", <<>>, "entity5", "">>,
             <<"entity5", ">", <<>>, "subset", "">>,
             <<"entity5", "NAME", <<"N","D","A","T","A">>, "entity6", "">>,
             <<"entity6", "NAME", <<>>, "declClose", "">>,
             <<"entity7", "NAME", <<"S","Y","S","T","E","M">>, "entity9", "">>,
             <<"entity7", "NAME", <<"P","U","B","L","I","C">>, "entity8", "">>,
             <<"entity7", "LITERAL", <<>>, "declClose", "value">>,
             <<"entity8", "LITERAL", <<>>, "entity9", "pubid">>,
             <<"entity9", "LITERAL", <<>>, "entity10", "">>,
             <<"entity10", ">", <<>>, "subset", "">>,
             <<"notation0", "NAME", <<>>, "notation1", "">>,
             <<"notation1", "NAME", <<"S","Y","S","T","E","M">>, "notation3", "">>,
             <<"notation1", "NAME", <<"P","U","B","L","I","C">>, "notation2", "">>,
             <<"notation2", "LITERAL", <<>>, "notation4", "pubid">>,
             <<"notation3", "LITERAL", <<>>, "declClose", "">>,
             <<"notation4", "LITERAL", <<>>, "declClose", "">>,
             <<"notation4", ">", <<>>, "subset", "">>,
             <<"attlist0", "NAME", <<>>, "attlist1", "element">>,
             <<"attlist0", "PREFIXED", <<>>, "attlist1", "element">>,
             <<"attlist1", ">", <<>>, "subset", "">>,
             <<"attlist1", "NAME", <<>>, "attlist2", "attribute">>,
             <<"attlist1", "PREFIXED", <<>>, "attlist2", "attribute">>,
             <<"attlist2", "NAME", <<"C","D","A","T","A">>, "attlist8", "cdata">>,
             <<"attlist2", "NAME", <<"I","D">>, "attlist8", "">>,
             <<"attlist2", "NAME", <<"I","D","R","E","F">>, "attlist8", "">>,
             <<"attlist2", "NAME", <<"I","D","R","E","F","S">>, "attlist8", "">>,
             <<"attlist2", "NAME", <<"E","N","T","I","T","Y">>, "attlist8", "">>,
             <<"attlist2", "NAME", <<"E","N","T","I","T","I","E","S">>, "attlist8", "">>,
             <<"attlist2", "NAME", <<"N","M","T","O","K","E","N">>, "attlist8", "">>,
             <<"attlist2", "NAME", <<"N","M","T","O","K","E","N","S">>, "attlist8", "">>,
             <<"attlist2", "NAME", <<"N","O","T","A","T","I","O","N">>, "attlist5", "">>,
             <<"attlist2", "(", <<>>, "attlist3", "">>,
             <<"attlist3", "NMTOKEN", <<>>, "attlist4", "">>,
             <<"attlist3", "NAME", <<>>, "attlist4", "">>,
             <<"attlist3", "PREFIXED", <<>>, "attlist4", "">>,
             <<"attlist4", ")", <<>>, "attlist8", "">>,
             <<"attlist4", "|", <<>>, "attlist3", "">>,
             <<"attlist5", "(", <<>>, "attlist6", "">>,
             <<"attlist6", "NAME", <<>>, "attlist7", "">>,
             <<"attlist7", ")", <<>>, "attlist8", "">>,
             <<"attlist7", "|", <<>>, "attlist6", "">>,
             <<"attlist8", "POUND", <<"I","M","P","L","I","E","D">>, "attlist1", "nodefault">>,
             <<"attlist8", "POUND", <<"R","E","Q","U","I","R","E","D">>, "attlist1", "nodefault">>,
             <<"attlist8", "POUND", <<"F","I","X","E","D">>, "attlist9", "">>,
             <<"attlist8", "LITERAL", <<>>, "attlist1", "default">>,
             <<"attlist9", "LITERAL", <<>>, "attlist1", "default">>,
             <<"element0", "NAME", <<>>, "element1", "">>,
             <<"element0", "PREFIXED", <<>>, "element1", "">>,
             <<"element1", "NAME", <<"E","M","P","T","Y">>, "declClose", "">>,
             <<"element1", "NAME", <<"A","N","Y">>, "declClose", "">>,
             <<"element1", "(", <<>>, "element2", "group">>,
             <<"element2", "POUND", <<"P","C","D","A","T","A">>, "element3", "">>,
             <<"element2", "(", <<>>, "element6", "open">>,
             <<"element2", "NAME", <<>>, "element7", "">>,
             <<"element2", "PREFIXED", <<>>, "element7", "">>,
             <<"element2", "NAMEQ", <<>>, "element7", "">>,
             <<"element3", ")", <<>>, "declClose", "">>,
             <<"element3", ")*", <<>>, "declClose", "">>,
             <<"element3", "|", <<>>, "element4", "">>,
             <<"element4", "NAME", <<>>, "element5", "">>,
             <<"element4", "PREFIXED", <<>>, "element5", "">>,
             <<"element5", ")*", <<>>, "declClose", "">>,
             <<"element5", "|", <<>>, "element4", "">>,
             <<"element6", "(", <<>>, "element6", "open">>,
             <<"element6", "NAME", <<>>, "element7", "">>,
             <<"element6", "PREFIXED", <<>>, "element7", "">>,
             <<"element6", "NAMEQ", <<>>, "element7", "">>,
             <<"element7", ")", <<>>, "element7", "close">>,
             <<"element7", ")*", <<>>, "element7", "close">>,
             <<"element7", ")?", <<>>, "element7", "close">>,
             <<"element7", ",", <<>>, "element6", "sequence">>,
             <<"element7", "|", <<>>, "element6", "choice">>,
             <<"declClose", ">", <<>>, "subset", "">>}
        \* the replacement text of the entity value s[p..b], acc being the
        \* text so far: character references replaced, line ends as one line
        \* feed; XmlFail when it holds a '%' or a malformed reference
        RECURSIVE EntityValue(_, _, _)
        EntityValue(p, b, acc) ==
            LET Referred(r) ==
                    IF ~r.ok THEN XmlFail
                    ELSE IF r.next > b + 1 THEN XmlFail
                    ELSE IF At(s, p + 1, <<"#">>) THEN EntityValue(r.next, b, acc \o r.chars)
                    ELSE EntityValue(r.next, b, acc \o SubSeq(s, p, r.next - 1))
                \* the text from the run of other characters, which ends at e, on
                Plain(e) == EntityValue(e + 1, b, acc \o SubSeq(s, p, e))
            IN  IF p > b THEN [ok |-> TRUE, value |-> acc]
                ELSE IF s[p] = "%" THEN XmlFail
                ELSE IF s[p] = "&" THEN Referred(XmlReference(s, p))
                ELSE IF s[p] = "\r"
                THEN EntityValue(IF p < b /\ s[p + 1] = NL THEN p + 2 ELSE p + 1, b,
                                 Append(acc, NL))
                ELSE Plain(Min({b, RunEndNot(s, p, {"%", "&", "\r"})}))
        \* the internal subset after a token of it is taken with the
        \* outcome a (a.next the position after the token, a.to the state of
        \* the grammar it leads to, a.d the declarations so far): the
        \* position after the ']' that ends the subset and the declarations
        RECURSIVE Subset(_)
        Subset(a) ==
            LET st == a.to
                d == a.d
                \* the token t is taken, h being the place the grammar has
                \* for it: its outcome
                Effect(t, h) ==
                    LET text == SubSeq(s, t.a, t.b)
                        to == h[4]
                        act == h[5]
                        Go(to2, d2) == [ok |-> TRUE, next |-> t.next, to |-> to2, d |-> d2]
                        \* the declarations with the attribute being read,
                        \* unless the element has one of that name
                        Define(given, value) ==
                            IF \E k \in 1..Len(d.atts) :
                                   d.atts[k].elem = d.elem /\ d.atts[k].attr = d.attr
                            THEN d
                            ELSE [d EXCEPT !.atts = Append(d.atts,
                                      [elem |-> d.elem, attr |-> d.attr, cdata |-> d.cdata,
                                       given |-> given, value |-> value])]
                        \* the entity being declared has the replacement text v
                        Valued(v) ==
                            IF ~v.ok THEN XmlFail
                            ELSE Go(to, [d EXCEPT !.ents =
                                            [k \in 1..Len(d.ents) |->
                                                 IF d.ents[k].name = d.ent
                                                 THEN [name |-> d.ent, internal |-> TRUE,
                                                       text |-> v.value]
                                                 ELSE d.ents[k]]])
                        \* the attribute being declared has the default v,
                        \* which ends with no space when its type is tokenized
                        Defaulted(v) ==
                            IF ~v.ok THEN XmlFail
                            ELSE Go(to, Define(TRUE, IF ~d.cdata /\ v.value # <<>> /\
                                                        v.value[Len(v.value)] = " "
                                                     THEN SubSeq(v.value, 1, Len(v.value) - 1)
                                                     ELSE v.value))
                    IN  IF t.tok = "S" THEN Go(st, d)
                        ELSE CASE act = "peref" -> Go(to, [d EXCEPT !.peref = TRUE,
                                                                    !.kp = d.standalone])
                               [] act = "entity" ->
                                    Go(to, IF \/ text \in {<<"a","m","p">>, <<"l","t">>, <<"g","t">>,
                                                          <<"q","u","o","t">>, <<"a","p","o","s">>}
                                              \/ ~d.kp
                                              \/ \E k \in 1..Len(d.ents) : d.ents[k].name = text
                                           THEN [d EXCEPT !.ent = <<>>]
                                           ELSE [d EXCEPT !.ent = text,
                                                          !.ents = Append(d.ents,
                                                                       [name |-> text,
                                                                        internal |-> FALSE,
                                                                        text |-> <<>>])])
                               [] act = "parameter" -> Go(to, [d EXCEPT !.ent = <<>>])
                               [] act = "value" ->
                                    IF d.kp THEN Valued(EntityValue(t.a, t.b, <<>>))
                                    ELSE Go(to, d)
                               [] act = "pubid" ->
                                    IF \E k \in t.a..t.b : s[k] \notin PubidChar THEN XmlFail
                                    ELSE Go(to, d)
                               [] act = "element" -> Go(to, [d EXCEPT !.elem = text])
                               [] act = "attribute" -> Go(to, [d EXCEPT !.attr = text,
                                                                        !.cdata = FALSE])
                               [] act = "cdata" -> Go(to, [d EXCEPT !.cdata = TRUE])
                               [] act = "nodefault" ->
                                    Go(to, IF d.kp THEN Define(FALSE, <<>>) ELSE d)
                               [] act = "default" ->
                                    IF d.kp
                                    THEN Defaulted(XmlAttValue(text, 1, "", d, <<>>, d.cdata,
                                                               FALSE, <<>>))
                                    ELSE Go(to, d)
                               [] act = "group" -> Go(to, [d EXCEPT !.conn = <<"">>])
                               [] act = "open" -> Go(to, [d EXCEPT !.conn = Append(d.conn, "")])
                               [] act = "close" ->
                                    Go(IF Len(d.conn) = 1 THEN "declClose" ELSE to,
                                       [d EXCEPT !.conn = SubSeq(d.conn, 1, Len(d.conn) - 1)])
                               [] act \in {"sequence", "choice"} ->
                                    IF d.conn[Len(d.conn)] = (IF act = "choice" THEN "," ELSE "|")
                                    THEN XmlFail
                                    ELSE Go(to, [d EXCEPT !.conn[Len(d.conn)] =
                                                     IF act = "choice" THEN "|" ELSE ","])
                               [] OTHER -> Go(to, d)
                \* the token t is taken: its outcome, XmlFail when there is
                \* no token or the grammar has no place for it; white space
                \* separates the tokens
                Taken(t) ==
                    LET hits == {h \in Trans : /\ h[1] = st
                                               /\ h[2] = t.tok
                                               /\ h[3] \in {<<>>, SubSeq(s, t.a, t.b)}}
                    IN  IF ~t.ok THEN XmlFail
                        ELSE IF t.tok # "S" /\ hits = {} THEN XmlFail
                        ELSE Effect(t, IF t.tok = "S" THEN <<>> ELSE CHOOSE h \in hits : TRUE)
            IN  IF ~a.ok THEN bad
                ELSE IF a.to = "done" THEN [next |-> a.next, dtd |-> a.d]
                ELSE Subset(Taken(Token(a.next)))
        \* the end of the declaration after its internal subset sub
        Close(sub) ==
            LET g == RunEnd(s, sub.next, XmlSpace) + 1
            IN  IF sub.next = 0 THEN bad
                ELSE IF ~At(s, g, <<">">>) THEN bad
                ELSE [next |-> g + 1, dtd |-> sub.dtd]
        \* where the declarations start: after the '[' that follows the name
        \* or the external identifier h, if there is one
        Internal(h) ==
            LET b == RunEnd(s, h.x, XmlSpace) + 1
                d0 == [ents |-> <<>>, atts |-> <<>>, peref |-> h.ext, kp |-> TRUE,
                       standalone |-> standalone, ent |-> <<>>, elem |-> <<>>,
                       attr |-> <<>>, cdata |-> FALSE, conn |-> <<>>]
            IN  IF h.x = 0 THEN XmlFail
                ELSE IF At(s, b, <<">">>) THEN [ok |-> TRUE, next |-> b, to |-> "done", d |-> d0]
                ELSE IF ~At(s, b, <<"[">>) THEN XmlFail
                ELSE [ok |-> TRUE, next |-> b + 1, to |-> "subset", d |-> d0]
        \* the system literal that follows the public identifier ending
        \* before position pub
        Public(pub) == IF pub = 0 THEN 0 ELSE Quoted(pub, FALSE)
        \* the external identifier after the name, which ends at position e
        \* and is followed by white space up to position w: the position x
        \* after it (0: it is malformed, or the name is) and whether there is
        \* one
        External(e, w) ==
            IF e = 0 THEN [x |-> 0, ext |-> FALSE]
            ELSE IF w > e + 1 /\ At(s, w, <<"S","Y","S","T","E","M">>)
            THEN [x |-> Quoted(w + 6, FALSE), ext |-> TRUE]
            ELSE IF w > e + 1 /\ At(s, w, <<"P","U","B","L","I","C">>)
            THEN [x |-> Public(Quoted(w + 6, TRUE)), ext |-> TRUE]
            ELSE [x |-> e + 1, ext |-> FALSE]
        \* the end of the name that starts at position n, c being the end of
        \* its first part; 0 when it is not a name
        Named(n, c) ==
            LET e == IF At(s, c + 1, <<":">>) THEN RunEnd(s, c + 2, XmlNameChar) ELSE c
            IN  IF n = i + 9 \/ c < n \/ e = c + 1 \/ At(s, e + 1, <<":">>) THEN 0
                ELSE e
        \* the end of the name of the declaration
        name == Named(RunEnd(s, i + 9, XmlSpace) + 1,
                      XmlNCName(s, RunEnd(s, i + 9, XmlSpace) + 1))
    IN  Close(Subset(Internal(External(name, RunEnd(s, name + 1, XmlSpace) + 1))))

\* the attributes of a start tag of the element elem from position p of s on
\* (p follows the name or a value): the position after the '>', whether the
\* tag is an empty-element tag ('/>'), and the attributes as written, acc
\* being those so far; dtd, opened and internal as for XmlAttValue
RECURSIVE XmlAttrs(_, _, _, _, _, _, _)
XmlAttrs(s, p, dtd, opened, elem, internal, acc) ==
    LET w == RunEnd(s, p, XmlSpace) + 1
        \* the attributes from the one named s[w..e], whose value is val, on;
        \* a value of a tokenized type ends with no space
        Valued(e, cdata, val) ==
            IF ~val.ok THEN XmlFail
            ELSE IF \E k \in 1..Len(acc) : acc[k][1] = SubSeq(s, w, e) THEN XmlFail
            ELSE XmlAttrs(s, val.next, dtd, opened, elem, internal,
                          Append(acc, <<SubSeq(s, w, e),
                                        IF ~cdata /\ val.value # <<>> /\
                                           val.value[Len(val.value)] = " "
                                        THEN SubSeq(val.value, 1, Len(val.value) - 1)
                                        ELSE val.value>>))
        \* the attributes from the one whose name ends at position e on;
        \* cdata: it is not declared with a tokenized type
        Named(e, cdata) ==
            LET q == RunEnd(s, e + 1, XmlSpace) + 1
                v == RunEnd(s, q + 1, XmlSpace) + 1
            IN  IF w = p \/ e < w THEN XmlFail
                ELSE IF ~At(s, q, <<"=">>) THEN XmlFail
                ELSE IF ~(At(s, v, <<"\"">>) \/ At(s, v, <<"'">>)) THEN XmlFail
                ELSE Valued(e, cdata,
                            XmlAttValue(s, v + 1, s[v], dtd, opened, cdata, internal, <<>>))
    IN  IF At(s, w, <<">">>) THEN [ok |-> TRUE, next |-> w + 1, empty |-> FALSE, attrs |-> acc]
        ELSE IF At(s, w, <<"/", ">">>)
        THEN [ok |-> TRUE, next |-> w + 2, empty |-> TRUE, attrs |-> acc]
        ELSE Named(XmlName(s, w),
                   ~\E k \in 1..Len(dtd.atts) :
                        /\ dtd.atts[k].elem = elem
                        /\ dtd.atts[k].attr = SubSeq(s, w, XmlName(s, w))
                        /\ ~dtd.atts[k].cdata)

\* the element a start tag opens, for its name as written, its attributes as
\* written and the namespace bindings ns in scope (<<prefix, uri>>, innermost
\* first): the bindings in scope inside it and the Element, with the
\* attributes the document type gives it by default after those written, the
\* names expanded and the namespace declarations taken out of the attributes
XmlOpen(qname, written, ns, dtd) ==
    LET xmlns == <<"x","m","l","n","s">>
        xmlUri == <<"h","t","t","p",":","/","/","w","w","w",".","w","3",".","o","r","g","/","X","M","L","/","1","9","9","8","/","n","a","m","e","s","p","a","c","e">>
        xmlnsUri == <<"h","t","t","p",":","/","/","w","w","w",".","w","3",".","o","r","g","/","2","0","0","0","/","x","m","l","n","s","/">>
        \* the declared attributes of the element that have a default and
        \* are not written
        defaults == SelectSeq(dtd.atts,
                              LAMBDA a : /\ a.elem = qname
                                         /\ a.given
                                         /\ \A k \in 1..Len(written) : written[k][1] # a.attr)
        attrs == written \o [k \in 1..Len(defaults) |->
                                 <<defaults[k].attr, defaults[k].value>>]
        \* the position of the ':' of a name, 0 when it has no prefix
        Colon(q) == IF \E k \in 1..Len(q) : q[k] = ":"
                    THEN CHOOSE k \in 1..Len(q) : q[k] = ":" ELSE 0
        Prefix(q) == SubSeq(q, 1, Colon(q) - 1)
        Local(q) == SubSeq(q, Colon(q) + 1, Len(q))
        Declares(a) == a[1] = xmlns \/ Prefix(a[1]) = xmlns
        \* a declaration expat accepts
        DeclOk(a) ==
            LET pfx == IF a[1] = xmlns THEN <<>> ELSE Local(a[1])
            IN  IF \E k \in 1..Len(a[2]) : a[2][k] = "}" THEN FALSE
                ELSE IF pfx = xmlns THEN FALSE
                ELSE IF pfx = <<"x","m","l">> THEN a[2] = xmlUri
                ELSE IF a[2] \in {xmlUri, xmlnsUri} THEN FALSE
                ELSE ~(pfx # <<>> /\ a[2] = <<>>)
        \* the expanded name of q, whose prefix is pfx, under the bindings
        \* scope; <<>> when the prefix is not bound
        Expand(q, pfx, isAttr, scope) ==
            LET hits == {k \in 1..Len(scope) : scope[k][1] = pfx}
                uri == IF pfx = <<"x","m","l">> THEN xmlUri
                       ELSE IF hits = {} THEN <<>>
                       ELSE scope[Min(hits)][2]
            IN  IF pfx = <<>> /\ isAttr THEN q
                ELSE IF pfx # <<>> /\ pfx # <<"x","m","l">> /\ hits = {} THEN <<>>
                ELSE IF uri = <<>> THEN q
                ELSE <<"{">> \o uri \o <<"}">> \o Local(q)
        \* the element for the declarations decls and the other attributes
        \* plain, both as written, the bindings scope, the expanded name tag
        \* and the expanded names of plain
        Built(decls, plain, scope, tag, names) ==
            IF \E k \in 1..Len(decls) : ~DeclOk(decls[k]) THEN XmlFail
            ELSE IF tag = <<>> THEN XmlFail
            ELSE IF \E k \in 1..Len(names) : names[k] = <<>> THEN XmlFail
            ELSE IF \E j, k \in 1..Len(names) : j # k /\ names[j] = names[k] THEN XmlFail
            ELSE [ok |-> TRUE, qname |-> qname, ns |-> scope,
                  node |-> [tag |-> tag,
                            attrib |-> [k \in 1..Len(plain) |-> <<names[k], plain[k][2]>>],
                            text |-> <<>>, children |-> <<>>]]
        \* the names are expanded under the bindings in scope inside the element
        Scoped(decls, plain, scope) ==
            Built(decls, plain, scope, Expand(qname, Prefix(qname), FALSE, scope),
                  [k \in 1..Len(plain) |->
                       Expand(plain[k][1], Prefix(plain[k][1]), TRUE, scope)])
        \* the declarations of the start tag come before those in scope, the
        \* last one first
        Bound(decls, plain) ==
            Scoped(decls, plain,
                   [k \in 1..Len(decls) |->
                        <<IF decls[Len(decls) + 1 - k][1] = xmlns THEN <<>>
                          ELSE Local(decls[Len(decls) + 1 - k][1]),
                          decls[Len(decls) + 1 - k][2]>>] \o ns)
    IN  Bound(SelectSeq(attrs, Declares), SelectSeq(attrs, LAMBDA a : ~Declares(a)))

\* the content from position p of s on, inside the open elements of stack
\* (innermost last, each as XmlOpen gives it; empty at the root's start tag):
\* the position after the root's end and the root Element; XmlFail when the
\* document is malformed.  s is the document, or the replacement text of the
\* entity whose reference is being replaced: ctx holds, innermost last, for
\* each such entity its name, the text that holds the reference (s), the
\* position after the reference (next) and the number of elements open at
\* the reference (base), which the replacement text must neither close nor
\* leave open
RECURSIVE XmlContent(_, _, _, _, _)
XmlContent(s, p, stack, ctx, dtd) ==
    LET top == stack[Len(stack)]
        \* character data t is reported: it is part of the text of the
        \* innermost element as long as that has no child
        AddText(t) ==
            IF top.node.children = <<>>
            THEN [stack EXCEPT ![Len(stack)].node.text = @ \o t]
            ELSE stack
        \* the Element el is complete: it is the root, or a child of the
        \* element that encloses it
        Closed(el, rest, n) ==
            IF rest = <<>> THEN [ok |-> TRUE, next |-> n, node |-> el]
            ELSE XmlContent(s, n, [rest EXCEPT ![Len(rest)].node.children = Append(@, el)],
                            ctx, dtd)
        \* character data as reported: a line end of the document is one
        \* line feed
        Data(a, b) ==
            LET at == SelectSeq([k \in 1..(b - a + 1) |-> a + k - 1],
                                LAMBDA k : ~At(s, k, <<"\r", NL>>))
            IN  IF ctx # <<>> THEN SubSeq(s, a, b)
                ELSE [j \in 1..Len(at) |-> IF s[at[j]] = "\r" THEN NL ELSE s[at[j]]]
        \* the end tag whose name ends at position en
        EndTag(en) ==
            LET eg == RunEnd(s, en + 1, XmlSpace) + 1
            IN  IF en < p + 2 THEN XmlFail
                ELSE IF SubSeq(s, p + 2, en) # top.qname THEN XmlFail
                ELSE IF ctx # <<>> /\ Len(stack) = ctx[Len(ctx)].base THEN XmlFail
                ELSE IF ~At(s, eg, <<">">>) THEN XmlFail
                ELSE Closed(top.node, SubSeq(stack, 1, Len(stack) - 1), eg + 1)
        \* the comment or processing instruction that ends before position sk
        Skipped(sk) == IF sk = 0 THEN XmlFail ELSE XmlContent(s, sk, stack, ctx, dtd)
        \* the CDATA section, cs being the positions of ']]>' after its start
        CData(cs) ==
            IF cs = {} THEN XmlFail
            ELSE IF \E k \in (p + 9)..(Min(cs) - 1) : s[k] \in XmlIllegal THEN XmlFail
            ELSE XmlContent(s, Min(cs) + 3, AddText(Data(p + 9, Min(cs) - 1)), ctx, dtd)
        \* the start tag, which ends before position n, with its element el
        Opened(empty, n, el) ==
            IF ~el.ok THEN XmlFail
            ELSE IF empty THEN Closed(el.node, stack, n)
            ELSE XmlContent(s, n, Append(stack, el), ctx, dtd)
        \* the start tag whose name ends at position sn, with its attributes sa
        StartTag(sn, sa) ==
            IF sn < p + 1 THEN XmlFail
            ELSE IF ~sa.ok THEN XmlFail
            ELSE Opened(sa.empty, sa.next,
                        XmlOpen(SubSeq(s, p + 1, sn), sa.attrs,
                                IF stack = <<>> THEN <<>> ELSE top.ns, dtd))
        \* the reference r to the entity name, hits being the places of its
        \* declaration: its replacement text is content
        Entity(r, name, hits) ==
            IF hits = {} THEN XmlFail
            ELSE IF ~dtd.ents[Min(hits)].internal THEN XmlFail
            ELSE IF \E k \in 1..Len(ctx) : ctx[k].name = name THEN XmlFail
            ELSE XmlContent(dtd.ents[Min(hits)].text, 1, stack,
                            Append(ctx, [s |-> s, next |-> r.next, name |-> name,
                                         base |-> Len(stack)]), dtd)
        \* the reference r
        Reference(r) ==
            IF ~r.ok THEN XmlFail
            ELSE IF ~r.undeclared THEN XmlContent(s, r.next, AddText(r.chars), ctx, dtd)
            ELSE Entity(r, SubSeq(s, p + 1, r.next - 2),
                        {k \in 1..Len(dtd.ents) :
                             dtd.ents[k].name = SubSeq(s, p + 1, r.next - 2)})
        \* the character data up to position te
        Text(te) ==
            IF \E k \in p..te : s[k] \in XmlIllegal THEN XmlFail
            ELSE IF \E k \in p..te : At(s, k, <<"]","]",">">>) THEN XmlFail
            ELSE XmlContent(s, te + 1, AddText(Data(p, te)), ctx, dtd)
        \* the replacement text ends: the content goes on after the
        \* reference, which f describes
        Resumed(f) ==
            IF Len(stack) # f.base THEN XmlFail
            ELSE XmlContent(f.s, f.next, stack, SubSeq(ctx, 1, Len(ctx) - 1), dtd)
    IN  IF p > Len(s) THEN IF ctx = <<>> THEN XmlFail ELSE Resumed(ctx[Len(ctx)])
        ELSE IF stack # <<>> /\ At(s, p, <<"<", "/">>) THEN EndTag(XmlName(s, p + 2))
        ELSE IF stack # <<>> /\ (At(s, p, <<"<","!","-","-">>) \/ At(s, p, <<"<","?">>))
        THEN Skipped(XmlSkip(s, p))
        ELSE IF stack # <<>> /\ At(s, p, <<"<","!","[","C","D","A","T","A","[">>)
        THEN CData(Occurrences(s, <<"]","]",">">>, p + 9))
        ELSE IF s[p] = "<"
        THEN StartTag(XmlName(s, p + 1),
                      XmlAttrs(s, XmlName(s, p + 1) + 1, dtd,
                               [k \in 1..Len(ctx) |-> ctx[k].name],
                               SubSeq(s, p + 1, XmlName(s, p + 1)), ctx # <<>>, <<>>))
        ELSE IF stack = <<>> THEN XmlFail
        ELSE IF s[p] = "&" THEN Reference(XmlReference(s, p))
        ELSE Text(RunEndNot(s, p, {"<", "&"}))

\* ET.fromstring(block): the root Element of the document, XmlFail for
\* ET.ParseError.  A byte order mark and the XML declaration may open the
\* document; comments, processing instructions and white space may surround
\* the document type declaration and the root element
XmlFromString(s) ==
    LET b == IF At(s, 1, <<"U+FEFF">>) THEN 2 ELSE 1
        declared == At(s, b, <<"<","?","x","m","l">>) /\ b + 5 <= Len(s) /\ s[b + 5] \in XmlSpace
        \* the document after its XML declaration decl, if it has one, and
        \* the comments, processing instructions and white space that follow
        Prolog(decl) ==
            IF decl.next = 0 THEN [next |-> 0]
            ELSE [next |-> XmlMisc(s, decl.next), standalone |-> decl.standalone]
        \* the document type declaration, if the document has one at pr.next
        Typed(pr) ==
            IF pr.next = 0 THEN [next |-> 0]
            ELSE IF At(s, pr.next, <<"<","!","D","O","C","T","Y","P","E">>)
            THEN XmlDoctype(s, pr.next, pr.standalone)
            ELSE [next |-> pr.next,
                  dtd |-> [ents |-> <<>>, atts |-> <<>>, peref |-> FALSE,
                           standalone |-> pr.standalone]]
        \* the comments, processing instructions and white space before the
        \* root element
        Start(dt) ==
            IF dt.next = 0 THEN [next |-> 0]
            ELSE [next |-> XmlMisc(s, dt.next), dtd |-> dt.dtd]
        \* the root element
        Content(dt) ==
            IF dt.next = 0 THEN XmlFail
            ELSE XmlContent(s, dt.next, <<>>, <<>>, dt.dtd)
        \* the root element el and what follows it
        Root(el) ==
            IF ~el.ok THEN XmlFail
            ELSE IF XmlMisc(s, el.next) # Len(s) + 1 THEN XmlFail
            ELSE el
    IN  Root(Content(Start(Typed(Prolog(IF declared THEN XmlDecl(s, b)
                                        ELSE [next |-> b, standalone |-> FALSE])))))

\* elem.get(key, default)
Attr(elem, key, default) ==
    LET hit == {k \in 1..Len(elem.attrib) : elem.attrib[k][1] = key}
    IN  IF hit = {} THEN default ELSE elem.attrib[Min(hit)][2]

\* elem.findall(tag) for a plain tag name: the children with that tag
FindAll(elem, tag) == SelectSeq(elem.children, LAMBDA c : c.tag = tag)

-----------------------------------------------------------------------------
(* DotNetParser: from an Element to a documentation item *)

\* str(n) for a natural number n
RECURSIVE Decimal(_)
Decimal(n) ==
    LET d == <<"0","1","2","3","4","5","6","7","8","9">>[(n % 10) + 1]
    IN  IF n < 10 THEN <<d>> ELSE Decimal(n \div 10) \o <<d>>

\* f"{elem.text}": the text, 'None' when there is none
Formatted(text) == IF text = <<>> THEN <<"N","o","n","e">> ELSE text

\* the string _parse_list appends to items for one <item>
ListItem(item) ==
    LET term == FindAll(item, <<"t","e","r","m">>)
        description == FindAll(item, <<"d","e","s","c","r","i","p","t","i","o","n">>)
    IN  IF term # <<>> /\ description # <<>>
        THEN Formatted(term[1].text) \o <<":", " ">> \o Formatted(description[1].text)
        ELSE Strip(item.text)

\* DotNetParser._parse_list
ParseList(list_elem) ==
    LET found == FindAll(list_elem, <<"i","t","e","m">>)
        numbered == Attr(list_elem, <<"t","y","p","e">>, <<"b","u","l","l","e","t">>)
                        = <<"n","u","m","b","e","r">>
    IN  Join([k \in 1..Len(found) |->
                 (IF numbered THEN Decimal(k) \o <<".", " ">> ELSE <<"*", " ">>)
                     \o ListItem(found[k])],
             <<NL>>)

\* DotNetParser._parse_see_tag
ParseSeeTag(see_elem) ==
    LET cref == Attr(see_elem, <<"c","r","e","f">>, <<>>)
        href == Attr(see_elem, <<"h","r","e","f">>, <<>>)
        text == Strip(see_elem.text)
    IN  IF cref # <<>>
        THEN <<"[">> \o (IF text # <<>> THEN text ELSE cref) \o <<"]", "(">> \o cref \o <<")">>
        ELSE IF href # <<>>
        THEN <<"[">> \o (IF text # <<>> THEN text ELSE href) \o <<"]", "(">> \o href \o <<")">>
        ELSE text

\* what the loop 'for child in elem' of _get_element_text appends to text_parts
ChildText(child) ==
    CASE child.tag = <<"p","a","r","a">> -> Strip(child.text)
      [] child.tag = <<"c">> ->
            IF child.text # <<>> THEN <<BQ>> \o child.text \o <<BQ>> ELSE <<>>
      [] child.tag = <<"c","o","d","e">> ->
            IF child.text # <<>>
            THEN <<BQ, BQ, BQ, NL>> \o child.text \o <<NL, BQ, BQ, BQ>> ELSE <<>>
      [] child.tag = <<"l","i","s","t">> -> ParseList(child)
      [] child.tag \in {<<"p","a","r","a","m","r","e","f">>,
                        <<"t","y","p","e","p","a","r","a","m","r","e","f">>} ->
            <<BQ>> \o Attr(child, <<"n","a","m","e">>, <<>>) \o <<BQ>>
      [] child.tag = <<"s","e","e">> -> ParseSeeTag(child)
      [] child.tag = <<"i","n","h","e","r","i","t","d","o","c">> ->
            <<"[","I","n","h","e","r","i","t","e","d"," ",
              "d","o","c","u","m","e","n","t","a","t","i","o","n","]">>
      [] child.tag = <<"i","n","c","l","u","d","e">> ->
            <<"[","I","n","c","l","u","d","e","d"," ","f","r","o","m",":"," ">>
                \o Attr(child, <<"f","i","l","e">>, <<>>) \o <<"]">>
      [] OTHER -> Strip(child.text)

\* a variant of _get_element_text that also keeps the element's own text
\* when the element has children
OwnTextKept(elem) ==
    IF elem.children # <<>>
    THEN Join(<<Strip(elem.text)>>
                  \o [k \in 1..Len(elem.children) |-> ChildText(elem.children[k])],
              <<" ">>)
    ELSE Strip(elem.text)

\* _get_element_text from 'text_parts = []' on, for the element find() returned
ElementText(elem) ==
    IF elem.children # <<>>
    THEN Join([k \in 1..Len(elem.children) |-> ChildText(elem.children[k])], <<" ">>)
    ELSE Strip(elem.text)

\* DotNetParser._get_element_text(root, tag) with the default ''
GetElementText(root, tag) ==
    LET found == FindAll(root, tag)
    IN  IF found = <<>> THEN <<>> ELSE ElementText(found[1])

\* a variant of _get_element_list that keeps only the first element found
FirstElementOnly(root, tag) ==
    LET found == FindAll(root, tag)
    IN  [k \in 1..Min({1, Len(found)}) |->
            [text |-> ElementText(found[k]), attributes |-> found[k].attrib]]

\* DotNetParser._get_element_list(root, tag)
GetElementList(root, tag) ==
    LET found == FindAll(root, tag)
    IN  [k \in 1..Len(found) |->
            [text |-> ElementText(found[k]), attributes |-> found[k].attrib]]

\* the entries every _parse_* method returns
ParseCommon(root) ==
    [name        |-> Attr(root, <<"n","a","m","e">>, <<>>),
     summary     |-> GetElementText(root, <<"s","u","m","m","a","r","y">>),
     remarks     |-> GetElementText(root, <<"r","e","m","a","r","k","s">>),
     see_also    |-> GetElementList(root, <<"s","e","e","a","l","s","o">>),
     inheritance |-> GetElementText(root, <<"i","n","h","e","r","i","t","d","o","c">>),
     includes    |-> GetElementList(root, <<"i","n","c","l","u","d","e">>)]

\* root's 'example' and 'type_params' entries
ParseExample(root) == GetElementText(root, <<"e","x","a","m","p","l","e">>)

ParseTypeParams(root) == GetElementList(root, <<"t","y","p","e","p","a","r","a","m">>)

\* DotNetParser._parse_class
ParseClass(root) ==
    ParseCommon(root) @@ [example |-> ParseExample(root),
                          type_params |-> ParseTypeParams(root)]

\* DotNetParser._parse_method
ParseMethod(root) ==
    ParseCommon(root) @@
        [parameters  |-> GetElementList(root, <<"p","a","r","a","m">>),
         returns     |-> GetElementText(root, <<"r","e","t","u","r","n","s">>),
         exceptions  |-> GetElementList(root, <<"e","x","c","e","p","t","i","o","n">>),
         example     |-> ParseExample(root),
         type_params |-> ParseTypeParams(root)]

\* DotNetParser._parse_property
ParseProperty(root) ==
    ParseCommon(root) @@ [value |-> GetElementText(root, <<"v","a","l","u","e">>),
                          example |-> ParseExample(root)]

\* DotNetParser._parse_enum
ParseEnum(root) ==
    ParseCommon(root) @@ [values |-> GetElementList(root, <<"v","a","l","u","e">>)]

\* DotNetParser._parse_interface
ParseInterface(root) ==
    ParseCommon(root) @@ [example |-> ParseExample(root),
                          type_params |-> ParseTypeParams(root)]

\* DotNetParser._parse_type
ParseType(root) == ParseCommon(root) @@ [type_params |-> ParseTypeParams(root)]

\* the if/elif chain on root.tag of parse_file: <<bucket, item>>, <<>> for a root
\* tag that none of the branches takes
DotNetDispatch(root) ==
    CASE root.tag = <<"c","l","a","s","s">> -> <<"classes", ParseClass(root)>>
      [] root.tag = <<"m","e","t","h","o","d">> -> <<"methods", ParseMethod(root)>>
      [] root.tag = <<"p","r","o","p","e","r","t","y">> ->
            <<"properties", ParseProperty(root)>>
      [] root.tag = <<"e","n","u","m">> -> <<"enums", ParseEnum(root)>>
      [] root.tag = <<"i","n","t","e","r","f","a","c","e">> ->
            <<"interfaces", ParseInterface(root)>>
      [] root.tag = <<"t","y","p","e">> -> <<"types", ParseType(root)>>
      [] OTHER -> <<>>

\* the loop 'for line in lines' and the flush of the last block
DotNetCollect ==
    /\ parser = "dotnet" /\ pc = "collect"
    /\ doc_blocks' = CollectBlocks(lines, <<>>)
    /\ block_index' = 0
    /\ pc' = "blocks"
    /\ UNCHANGED <<calls, parser, content, lines, line_index, pos, documentation, origins,
                   block, diagnostics, raised, doc_items>>

\* documentation[bucket].append(item) for the <<bucket, item>> the chain on
\* root.tag gives, nothing for <<>>
DotNetAppend(hit) ==
    /\ documentation' = IF hit = <<>> THEN documentation
                        ELSE AppendItem(documentation, hit[1], hit[2])
    /\ origins' = IF hit = <<>> THEN origins
                  ELSE [origins EXCEPT ![hit[1]] =
                           Append(@, BlockStarts(lines)[block_index + 1])]

\* one iteration of 'for block in doc_blocks' in which ET.fromstring returns
DotNetBlockParsed ==
    /\ parser = "dotnet" /\ pc = "blocks"
    /\ block_index < Len(doc_blocks)
    /\ XmlFromString(doc_blocks[block_index + 1]).ok
    /\ DotNetAppend(DotNetDispatch(XmlFromString(doc_blocks[block_index + 1]).node))
    /\ block_index' = block_index + 1
    /\ UNCHANGED <<calls, parser, content, pc, lines, line_index, pos, doc_blocks, block,
                   diagnostics, raised, doc_items>>

\* a variant of the loop without the except clause: ET.ParseError leaves
\* parse_file and the file yields nothing
ParseErrorPropagates ==
    /\ parser = "dotnet" /\ pc = "blocks"
    /\ block_index < Len(doc_blocks)
    /\ ~XmlFromString(doc_blocks[block_index + 1]).ok
    /\ raised' = TRUE
    /\ pc' = "done"
    /\ UNCHANGED <<calls, parser, content, lines, line_index, pos, doc_blocks, block_index,
                   documentation, origins, block, diagnostics, doc_items>>

\* one iteration of 'for block in doc_blocks' in which ET.fromstring raises
\* ET.ParseError: the except clause prints the diagnostic and continues
DotNetParseError ==
    /\ parser = "dotnet" /\ pc = "blocks"
    /\ block_index < Len(doc_blocks)
    /\ ~XmlFromString(doc_blocks[block_index + 1]).ok
    /\ diagnostics' = diagnostics + 1
    /\ block_index' = block_index + 1
    /\ UNCHANGED <<calls, parser, content, pc, lines, line_index, pos, doc_blocks,
                   documentation, origins, block, raised, doc_items>>

\* doc_blocks is exhausted: return documentation
DotNetReturn ==
    /\ parser = "dotnet" /\ pc = "blocks"
    /\ block_index >= Len(doc_blocks)
    /\ pc' = "done"
    /\ UNCHANGED <<calls, parser, content, lines, line_index, pos, doc_blocks, block_index,
                   documentation, origins, block, diagnostics, raised, doc_items>>

NextDotNet == DotNetCollect \/ DotNetBlockParsed \/ DotNetParseError \/ DotNetReturn


-----------------------------------------------------------------------------
(* .NET input files *)

\* '/// <method name="Z"><summary>S &lt; T</summary><returns><![CDATA[r]]></returns></method>'
D_Method0 ==
    <<"/","/","/"," ","<","m","e","t","h","o","d"," ","n","a","m","e","=","\"","Z","\"",">","<",
      "s","u","m","m","a","r","y",">","S"," ","&","l","t",";"," ","T","<","/","s","u","m","m",
      "a","r","y",">","<","r","e","t","u","r","n","s",">","<","!","[","C","D","A","T","A","[",
      "r","]","]",">","<","/","r","e","t","u","r","n","s",">","<","/","m","e","t","h","o","d",
      ">">>

\* '/// <method name="Foo"><summary>Does X</summary><param name="a">first</param><returns>a value</returns></method>'
D_Method1 ==
    <<"/","/","/"," ","<","m","e","t","h","o","d"," ","n","a","m","e","=","\"","F","o","o","\"",
      ">","<","s","u","m","m","a","r","y",">","D","o","e","s"," ","X","<","/","s","u","m","m",
      "a","r","y",">","<","p","a","r","a","m"," ","n","a","m","e","=","\"","a","\"",">","f","i",
      "r","s","t","<","/","p","a","r","a","m",">","<","r","e","t","u","r","n","s",">","a"," ",
      "v","a","l","u","e","<","/","r","e","t","u","r","n","s",">","<","/","m","e","t","h","o",
      "d",">">>

\* '/// <method name="Bar">\n///   <summary>Adds.</summary>\n///   <param name="x">one</param>\n///   <param name="y">two</param>\n///   <returns>sum</returns>\n/// </method>\nint Bar(int x, int y)'
D_Method2 ==
    <<"/","/","/"," ","<","m","e","t","h","o","d"," ","n","a","m","e","=","\"","B","a","r","\"",
      ">","\n","/","/","/"," "," "," ","<","s","u","m","m","a","r","y",">","A","d","d","s",".",
      "<","/","s","u","m","m","a","r","y",">","\n","/","/","/"," "," "," ","<","p","a","r","a",
      "m"," ","n","a","m","e","=","\"","x","\"",">","o","n","e","<","/","p","a","r","a","m",">",
      "\n","/","/","/"," "," "," ","<","p","a","r","a","m"," ","n","a","m","e","=","\"","y",
      "\"",">","t","w","o","<","/","p","a","r","a","m",">","\n","/","/","/"," "," "," ","<","r",
      "e","t","u","r","n","s",">","s","u","m","<","/","r","e","t","u","r","n","s",">","\n","/",
      "/","/"," ","<","/","m","e","t","h","o","d",">","\n","i","n","t"," ","B","a","r","(","i",
      "n","t"," ","x",","," ","i","n","t"," ","y",")">>

\* '  /// <class name="C"><summary>A <c>x</c> thing</summary></class>\npublic class C'
D_Class ==
    <<" "," ","/","/","/"," ","<","c","l","a","s","s"," ","n","a","m","e","=","\"","C","\"",">",
      "<","s","u","m","m","a","r","y",">","A"," ","<","c",">","x","<","/","c",">"," ","t","h",
      "i","n","g","<","/","s","u","m","m","a","r","y",">","<","/","c","l","a","s","s",">","\n",
      "p","u","b","l","i","c"," ","c","l","a","s","s"," ","C">>

\* '/// <method name="B"><summary>a & b</summary></method>\nvoid B()'
D_Bad ==
    <<"/","/","/"," ","<","m","e","t","h","o","d"," ","n","a","m","e","=","\"","B","\"",">","<",
      "s","u","m","m","a","r","y",">","a"," ","&"," ","b","<","/","s","u","m","m","a","r","y",
      ">","<","/","m","e","t","h","o","d",">","\n","v","o","i","d"," ","B","(",")">>

\* '/// <class name="O">'
D_Open ==
    <<"/","/","/"," ","<","c","l","a","s","s"," ","n","a","m","e","=","\"","O","\"",">">>

\* '/// </class>'
D_Close ==
    <<"/","/","/"," ","<","/","c","l","a","s","s",">">>

\* 'int x;'
D_Code ==
    <<"i","n","t"," ","x",";">>

\* ''
D_Blank ==
    <<>>

\* '/// <!-- c --><note>n &amp; m</note>\nint y;'
D_Note ==
    <<"/","/","/"," ","<","!","-","-"," ","c"," ","-","-",">","<","n","o","t","e",">","n"," ",
      "&","a","m","p",";"," ","m","<","/","n","o","t","e",">","\n","i","n","t"," ","y",";">>

\* '/// <enum><summary>E</summary><value name="A">first</value></enum>\nenum E'
D_Enum ==
    <<"/","/","/"," ","<","e","n","u","m",">","<","s","u","m","m","a","r","y",">","E","<","/",
      "s","u","m","m","a","r","y",">","<","v","a","l","u","e"," ","n","a","m","e","=","\"","A",
      "\"",">","f","i","r","s","t","<","/","v","a","l","u","e",">","<","/","e","n","u","m",">",
      "\n","e","n","u","m"," ","E">>

\* '/// <property name="P"><summary>See <see cref="Q">q</see> and <paramref name="a"/></summary><value>v</value></property>'
D_Prop ==
    <<"/","/","/"," ","<","p","r","o","p","e","r","t","y"," ","n","a","m","e","=","\"","P","\"",
      ">","<","s","u","m","m","a","r","y",">","S","e","e"," ","<","s","e","e"," ","c","r","e",
      "f","=","\"","Q","\"",">","q","<","/","s","e","e",">"," ","a","n","d"," ","<","p","a","r",
      "a","m","r","e","f"," ","n","a","m","e","=","\"","a","\"","/",">","<","/","s","u","m","m",
      "a","r","y",">","<","v","a","l","u","e",">","v","<","/","v","a","l","u","e",">","<","/",
      "p","r","o","p","e","r","t","y",">">>

\* '/// <type name="T"><remarks><list type="number"><item><term>t</term><description>d</description></item><item> i </item></list></remarks></type>'
D_List ==
    <<"/","/","/"," ","<","t","y","p","e"," ","n","a","m","e","=","\"","T","\"",">","<","r","e",
      "m","a","r","k","s",">","<","l","i","s","t"," ","t","y","p","e","=","\"","n","u","m","b",
      "e","r","\"",">","<","i","t","e","m",">","<","t","e","r","m",">","t","<","/","t","e","r",
      "m",">","<","d","e","s","c","r","i","p","t","i","o","n",">","d","<","/","d","e","s","c",
      "r","i","p","t","i","o","n",">","<","/","i","t","e","m",">","<","i","t","e","m",">"," ",
      "i"," ","<","/","i","t","e","m",">","<","/","l","i","s","t",">","<","/","r","e","m","a",
      "r","k","s",">","<","/","t","y","p","e",">">>

\* '///\n/// <interface name='I'><summary> padded </summary><typeparam name="K"/></interface>'
D_Iface ==
    <<"/","/","/","\n","/","/","/"," ","<","i","n","t","e","r","f","a","c","e"," ","n","a","m",
      "e","=","'","I","'",">","<","s","u","m","m","a","r","y",">"," ","p","a","d","d","e","d",
      " ","<","/","s","u","m","m","a","r","y",">","<","t","y","p","e","p","a","r","a","m"," ",
      "n","a","m","e","=","\"","K","\"","/",">","<","/","i","n","t","e","r","f","a","c","e",">">>

\* '/// <class name="A"><summary>a</summary></class>\nclass A\n/// <method name="B"><summary>oops</method>\nvoid B()'
D_ClassBad ==
    <<"/","/","/"," ","<","c","l","a","s","s"," ","n","a","m","e","=","\"","A","\"",">","<","s",
      "u","m","m","a","r","y",">","a","<","/","s","u","m","m","a","r","y",">","<","/","c","l",
      "a","s","s",">","\n","c","l","a","s","s"," ","A","\n","/","/","/"," ","<","m","e","t","h",
      "o","d"," ","n","a","m","e","=","\"","B","\"",">","<","s","u","m","m","a","r","y",">","o",
      "o","p","s","<","/","m","e","t","h","o","d",">","\n","v","o","i","d"," ","B","(",")">>

\* '/// <method name="W"><summary>lead <para> p </para> t1 <code>k</code><typeparamref name="T"/> t2 <inheritdoc/><include file="f"/></summary><param name="a">the <c>v</c> one</param><returns> r </returns></method>'
D_Mixed ==
    <<"/","/","/"," ","<","m","e","t","h","o","d"," ","n","a","m","e","=","\"","W","\"",">","<",
      "s","u","m","m","a","r","y",">","l","e","a","d"," ","<","p","a","r","a",">"," ","p"," ",
      "<","/","p","a","r","a",">"," ","t","1"," ","<","c","o","d","e",">","k","<","/","c","o",
      "d","e",">","<","t","y","p","e","p","a","r","a","m","r","e","f"," ","n","a","m","e","=",
      "\"","T","\"","/",">"," ","t","2"," ","<","i","n","h","e","r","i","t","d","o","c","/",">",
      "<","i","n","c","l","u","d","e"," ","f","i","l","e","=","\"","f","\"","/",">","<","/","s",
      "u","m","m","a","r","y",">","<","p","a","r","a","m"," ","n","a","m","e","=","\"","a","\"",
      ">","t","h","e"," ","<","c",">","v","<","/","c",">"," ","o","n","e","<","/","p","a","r",
      "a","m",">","<","r","e","t","u","r","n","s",">"," ","r"," ","<","/","r","e","t","u","r",
      "n","s",">","<","/","m","e","t","h","o","d",">">>

\* the pieces .NET input files are made of
DotNetSegments ==
    {D_ClassBad, D_Method0, D_Method1, D_Method2, D_Class, D_Bad, D_Open, D_Close, D_Code,
     D_Blank, D_Note, D_Enum, D_Prop, D_List, D_Iface, D_Mixed}

\* DotNetParser().parse_file(file) after content.split('\n')
InitDotNet ==
    /\ parser = "dotnet"
    /\ content \in FilesOf(DotNetSegments, MaxDotNetSegs)
    /\ lines = Split(content, <<NL>>)
    /\ line_index = 0
    /\ pc = "collect"
    /\ documentation = EmptyDoc(DotNetBuckets)
    /\ origins = EmptyDoc(DotNetBuckets)
    /\ block = [kind |-> "none"]
    /\ pos = 0 /\ doc_blocks = <<>> /\ block_index = 0
    /\ diagnostics = 0 /\ raised = FALSE /\ doc_items = <<>>
    /\ calls = <<>>

SpecDotNet == InitDotNet /\ [][NextDotNet]_vars

-----------------------------------------------------------------------------
(* the three parsers together *)

Init == InitSwift \/ InitKotlin \/ InitDotNet

Next == NextSwift \/ NextKotlin \/ NextDotNet

Spec == Init /\ [][Next]_vars

-----------------------------------------------------------------------------
(* several parse_file calls on one parser instance *)

\* the number of calls that may precede a call on the same instance
MaxCalls == 2

\* the file contents the calls of one instance are made on
CallContents(p) ==
    CASE p = "swift"  -> {SW_Other, SW_DocFunc, SW_Indented, SW_Tags, SW_Generic}
      [] p = "kotlin" -> {KT_Other, KT_DocClass, KT_One, KT_At, KT_Para}
      [] p = "dotnet" -> {D_Code, D_Method2, D_Class, D_Bad, D_Enum}

\* the bucket names of the dict each parse_file builds
BucketsFor(p) ==
    CASE p = "swift"  -> SwiftBuckets
      [] p = "kotlin" -> KotlinBuckets
      [] p = "dotnet" -> DotNetBuckets

\* the lines parse_file splits the content into (KotlinParser does not split)
EntryLines(p, c) == IF p = "kotlin" THEN <<>> ELSE Split(c, <<NL>>)

\* where parse_file starts: the scanning loop, or the collection of '///' lines
EntryPc(p) == IF p = "dotnet" THEN "collect" ELSE "scan"

\* a variant in which the dict of the previous call is used again
KeptDocumentation(p) == documentation

\* 'documentation = {...}': every call builds a dict of its own
FreshDocumentation(p) == EmptyDoc(BucketsFor(p))

\* what parse_file returns: the list of DocItem (Swift), the dict (Kotlin, .NET)
CallResult == IF parser = "swift" THEN doc_items ELSE documentation

\* a parser instance and its first parse_file call
InitCalls ==
    /\ parser \in {"swift", "kotlin", "dotnet"}
    /\ content \in CallContents(parser)
    /\ lines = EntryLines(parser, content)
    /\ line_index = 0
    /\ pc = EntryPc(parser)
    /\ documentation = EmptyDoc(BucketsFor(parser))
    /\ origins = EmptyDoc(BucketsFor(parser))
    /\ block = [kind |-> "none"]
    /\ pos = 0 /\ doc_blocks = <<>> /\ block_index = 0
    /\ diagnostics = 0 /\ raised = FALSE /\ doc_items = <<>>
    /\ calls = <<>>

\* parse_file has returned and is called again on the same instance: its
\* locals are created anew, nothing of the instance is written
ParseAgain ==
    /\ pc = "done" /\ ~raised
    /\ Len(calls) < MaxCalls
    /\ calls' = Append(calls, [content |-> content, result |-> CallResult])
    /\ \E c \in CallContents(parser) :
          /\ content' = c
          /\ lines' = EntryLines(parser, c)
    /\ line_index' = 0
    /\ pc' = EntryPc(parser)
    /\ documentation' = FreshDocumentation(parser)
    /\ origins' = EmptyDoc(BucketsFor(parser))
    /\ block' = [kind |-> "none"]
    /\ pos' = 0 /\ doc_blocks' = <<>> /\ block_index' = 0
    /\ diagnostics' = 0 /\ doc_items' = <<>>
    /\ UNCHANGED <<parser, raised>>

NextCalls == Next \/ ParseAgain

SpecCalls == InitCalls /\ [][NextCalls]_vars

-----------------------------------------------------------------------------
(* Claims *)

\* the number of items in all buckets of the documentation dict
RECURSIVE TotalItems(_, _)
TotalItems(doc, buckets) ==
    IF buckets = <<>> THEN 0
    ELSE Len(doc[Head(buckets)]) + TotalItems(doc, Tail(buckets))

\* every origin recorded so far lies before position p of the file
AllOriginsBefore(p) ==
    \A b \in DOMAIN origins : \A i \in 1..Len(origins[b]) : origins[b][i] < p

\* the buckets in which an item made from the block starting at p was put
BucketsOf(p) ==
    {b \in DOMAIN origins : \E i \in 1..Len(origins[b]) : origins[b][i] = p}

\* the item made from the block starting at p, in bucket b
ItemOf(b, p) ==
    documentation[b][CHOOSE i \in 1..Len(origins[b]) : origins[b][i] = p]

\* the blocks behind the items of a bucket start at increasing places of the file
OriginsIncrease ==
    \A b \in DOMAIN origins :
        /\ Len(origins[b]) = Len(documentation[b])
        /\ \A i, j \in 1..Len(origins[b]) : i < j => origins[b][i] < origins[b][j]

\* a step leaves a bucket as it is or adds one item at its end
AppendsOnly ==
    \A b \in DOMAIN documentation :
        \/ documentation'[b] = documentation[b]
        \/ /\ Len(documentation'[b]) = Len(documentation[b]) + 1
           /\ SubSeq(documentation'[b], 1, Len(documentation[b])) = documentation[b]

\* C1: for each of the three parsers and any file, the items of every bucket
\* appear in the order in which the doc blocks that produced them appear in the
\* file: each item is added at the end of its bucket, and its block starts after
\* the blocks of the items already there.
C1_OrderPreserved == []OriginsIncrease /\ [][AppendsOnly]_vars

\* C1 happens: a finished parse with two different items in one bucket
C1_Witness ==
    /\ pc = "done"
    /\ \E b \in DOMAIN documentation :
           /\ Len(documentation[b]) >= 2
           /\ documentation[b][1] # documentation[b][2]

\* the blocks of doc_blocks that fail to parse as XML
Malformed == {k \in 1..Len(doc_blocks) : ~XmlFromString(doc_blocks[k]).ok}

\* the blocks of doc_blocks that are well-formed and rooted at one of the six
\* declaration kinds
Rooted ==
    {k \in 1..Len(doc_blocks) :
        /\ XmlFromString(doc_blocks[k]).ok
        /\ XmlFromString(doc_blocks[k]).node.tag \in
               {<<"c","l","a","s","s">>, <<"m","e","t","h","o","d">>, <<"p","r","o","p","e","r","t","y">>, <<"e","n","u","m">>, <<"i","n","t","e","r","f","a","c","e">>, <<"t","y","p","e">>}}

\* C2: DotNetParser.parse_file never raises, and on a file of N doc blocks of
\* which exactly one fails to parse as XML and the other N-1 are well-formed and
\* rooted at class/method/property/enum/interface/type it returns N-1 items in
\* total and emits exactly one diagnostic, wherever the malformed block sits.
C2_GracefulDegradation ==
    parser = "dotnet" =>
        /\ ~raised
        /\ (pc = "done" /\ Cardinality(Malformed) = 1
                /\ Cardinality(Rooted) = Len(doc_blocks) - 1) =>
               /\ TotalItems(documentation, DotNetBuckets) = Len(doc_blocks) - 1
               /\ diagnostics = 1

\* C2 happens: three blocks, the malformed one in the middle
C2_Witness ==
    /\ parser = "dotnet" /\ pc = "done"
    /\ Len(doc_blocks) = 3 /\ Malformed = {2} /\ Rooted = {1, 3}
    /\ diagnostics = 1

\* the last block the Swift scanner collected ran into the end of the file
SwiftOrphan == parser = "swift" /\ block.kind # "none" /\ block.anchor = -1

\* the last KDoc block the Kotlin parser matched has nothing but blank space
\* after it
KotlinOrphan == parser = "kotlin" /\ block.kind = "kdoc" /\ block.code_line = <<>>

\* C3: in the Swift and Kotlin parsers a doc block that is the last thing in the
\* file (an unterminated /** block in Swift included) produces no item and
\* raises no error, and the items of the earlier blocks are all still there
\* and returned.
C3_OrphanBlockDropped ==
    parser \in {"swift", "kotlin"} =>
        /\ ~raised
        /\ (SwiftOrphan \/ KotlinOrphan) =>
               /\ AllOriginsBefore(block.first)
               /\ \A b \in DOMAIN origins : Len(documentation[b]) = Len(origins[b])
        /\ (parser = "swift" /\ pc = "done") =>
               Len(doc_items) = TotalItems(documentation, SwiftBuckets)

\* C3 happens: an unterminated /** block ends a Swift file that has an item
C3_Witness ==
    /\ SwiftOrphan /\ pc = "done"
    /\ block.kind = "block"
    /\ ~(\E j \in (block.first + 1)..Len(lines) : Contains(lines[j], T_BlockClose))
    /\ Len(doc_items) >= 1

\* the 0-based indices, from line i on, of the lines that contain '*/'
ClosingFrom(i) == {j \in i..(Len(lines) - 1) : Contains(lines[j + 1], T_BlockClose)}

\* C4: in the Swift scanner the raw block of a block comment is the span of
\* lines from the line that starts with /** through the first line, at or after
\* it, that contains */; the anchor is the first non-blank line after that span.
C4_BlockCommentSpan ==
    (parser = "swift" /\ block.kind = "block" /\ ClosingFrom(block.first) # {}) =>
        /\ block.last = Min(ClosingFrom(block.first))
        /\ block.anchor =
               IF SkipBlank(lines, Min(ClosingFrom(block.first)) + 1) >= Len(lines)
               THEN -1
               ELSE SkipBlank(lines, Min(ClosingFrom(block.first)) + 1)

\* the case of C4 that goes wrong: a one-line /** ... */ comment whose block
\* runs past its own line
C4_Witness ==
    /\ parser = "swift" /\ block.kind = "block"
    /\ Contains(lines[block.first + 1], T_BlockClose)
    /\ block.last > block.first

\* C5: in the Swift scanner a doc-comment line is never consumed as the anchor
\* of a /// block: when the first non-blank line after the block starts a doc
\* comment, the block is not processed and scanning resumes at that line.
C5_DocLineNotConsumed ==
    (parser = "swift" /\ block.kind = "slash" /\ block.anchor >= 0
        /\ ~SlashAnchorAccepted(lines[block.anchor + 1])) =>
        /\ ~block.processed
        /\ block.resume = block.anchor

\* the case of C5 that goes wrong: the scanner has stepped over the first line
\* of the next /// block
C5_Witness ==
    /\ parser = "swift" /\ block.kind = "slash" /\ block.anchor >= 0
    /\ IsSlashDoc(lines[block.anchor + 1])
    /\ block.resume = block.anchor + 1

\* C6: KotlinParser._detect_code_element gives the generic-type form priority:
\* for an anchor line that declares a generic class the result is ('type', N)
\* with N the complete identifier.
C6_GenericBeforeClass ==
    (parser = "kotlin" /\ block.kind = "kdoc"
        /\ KotlinTypeName(block.code_line) # <<>>) =>
        block.detected = <<"type", KotlinTypeName(block.code_line)>>

\* the case of C6 that goes wrong: class Box<T> detected as the class Bo
C6_Witness ==
    /\ parser = "kotlin" /\ block.kind = "kdoc"
    /\ block.code_line = KT_Gen
    /\ block.detected = <<"class", <<"B","o">>>>

\* C7: in the Kotlin parser a KDoc block whose anchor line is 'enum class N' is
\* classified as an enum named N and its item goes to the 'enums' bucket.
C7_EnumBeforeClass ==
    (parser = "kotlin" /\ block.kind = "kdoc"
        /\ KotlinEnumName(block.code_line) # <<>>) =>
        /\ block.detected = <<"enum", KotlinEnumName(block.code_line)>>
        /\ BucketsOf(block.first) = {"enums"}

\* the case of C7 that goes wrong: the item of 'enum class Color' is in 'classes'
C7_Witness ==
    /\ parser = "kotlin" /\ block.kind = "kdoc"
    /\ block.code_line = KT_Enum
    /\ BucketsOf(block.first) = {"classes"}

\* the case lines of the Cases subsections of a raw doc block, as
\* _parse_doc_block reads them
CaseLines(doc_text) ==
    SectionCases(SplitSections(SwiftCleanDescription(doc_text)))

\* C8: in the Swift parser a doc block with a Cases subsection of k case lines,
\* attached to an enum-case anchor, yields k items in 'cases', one per case
\* line, with the names and descriptions of the case lines in their order.
C8_OneItemPerCase ==
    (parser = "swift" /\ block.kind # "none" /\ block.processed
        /\ BucketsOf(block.first) = {"cases"}
        /\ CaseLines(block.doc_text) # <<>>) =>
        LET k == Len(CaseLines(block.doc_text))
            n == Len(documentation.cases)
        IN  /\ n >= k
            /\ \A i \in 1..k :
                   /\ documentation.cases[n - k + i].name
                          = CaseLines(block.doc_text)[i].name
                   /\ documentation.cases[n - k + i].description
                          = CaseLines(block.doc_text)[i].description

\* the case of C8 that goes wrong: two case lines, one item
C8_Witness ==
    /\ parser = "swift" /\ pc = "done" /\ block.kind # "none" /\ block.processed
    /\ BucketsOf(block.first) = {"cases"}
    /\ Len(CaseLines(block.doc_text)) = 2
    /\ Len(documentation.cases) = 1

\* the text of a one-block KDoc piece between its markers, stripped
KDocOf(piece) == Strip(SubSeq(piece, 4, Len(piece) - 2))

\* the KDoc text of the piece KT_At, which ends with the line 'fun m()'
KDocAt == KDocOf(SubSeq(KT_At, 1, Len(KT_At) - 8))

\* what the blocks of the form 'description, k @param tags, one @return tag'
\* among the Kotlin pieces say, each with the anchor line that follows it:
\* k = 2, 1 and 0, and k = 0 with an '@' inside the words user@host and ok@x
KDocScenarios ==
    {[kdoc |-> KDocOf(KT_Sum), code_line |-> KT_Fun, name |-> <<"a","d","d">>,
      description |-> <<"C","o","m","p","u","t","e","s"," ","s","u","m",".">>,
      parameters |-> <<[name |-> <<"a">>, description |-> <<"f","i","r","s","t">>],
                       [name |-> <<"b">>, description |-> <<"s","e","c","o","n","d">>]>>,
      returns |-> <<[text |-> <<"t","o","t","a","l">>]>>],
     [kdoc |-> KDocOf(KT_Neg), code_line |-> KT_Fun, name |-> <<"a","d","d">>,
      description |-> <<"N","e","g","a","t","e","s","\n","a"," ","v","a","l","u","e",".">>,
      parameters |-> <<[name |-> <<"v">>, description |-> <<"v","a","l","u","e">>]>>,
      returns |-> <<[text |-> <<"r","e","s","u","l","t">>]>>],
     [kdoc |-> KDocOf(KT_Zero), code_line |-> KT_Fun, name |-> <<"a","d","d">>,
      description |-> <<"Z","e","r","o",".">>,
      parameters |-> <<>>,
      returns |-> <<[text |-> <<"n","o","n","e">>]>>],
     [kdoc |-> KDocAt, code_line |-> <<"f","u","n"," ","m","(",")">>, name |-> <<"m">>,
      description |-> <<"M","a","i","l"," ","u","s","e","r","@","h","o","s","t"," ",
                        "n","o","w",".">>,
      parameters |-> <<>>,
      returns |-> <<[text |-> <<"o","k","@","x"," ","y">>]>>]}

\* C9: KotlinParser.parse_file on a KDoc block made of a description, k @param
\* tags and one @return tag, followed by the anchor line fun f(...), yields
\* exactly one item, in 'functions', with name f, the description equal to the
\* text before the tags, the k parameters (name, text) in order and the return
\* text, without comment markers or * prefixes in any of them.
C9_KDocFunctionItem ==
    \A sc \in KDocScenarios :
        (parser = "kotlin" /\ block.kind = "kdoc" /\ block.kdoc = sc.kdoc
            /\ block.code_line = sc.code_line) =>
            /\ BucketsOf(block.first) = {"functions"}
            /\ Cardinality({i \in 1..Len(origins.functions) :
                               origins.functions[i] = block.first}) = 1
            /\ ItemOf("functions", block.first).name = sc.name
            /\ ItemOf("functions", block.first).description = sc.description
            /\ ItemOf("functions", block.first).parameters = sc.parameters
            /\ ItemOf("functions", block.first).returns = sc.returns

\* C9 fails: the block with the description 'Mail user@host now.', no @param
\* tag and the tag '@return ok@x y' was parsed before 'fun m()'; it gave one
\* item in 'functions', named m, whose description is 'Mail user' and whose
\* return text is 'ok'
C9_Witness ==
    /\ parser = "kotlin" /\ pc = "done" /\ block.kind = "kdoc"
    /\ block.kdoc = KDocAt /\ block.code_line = <<"f","u","n"," ","m","(",")">>
    /\ BucketsOf(block.first) = {"functions"}
    /\ ItemOf("functions", block.first).name = <<"m">>
    /\ ItemOf("functions", block.first).parameters = <<>>
    /\ ItemOf("functions", block.first).description
           = <<"M","a","i","l"," ","u","s","e","r">>
    /\ ItemOf("functions", block.first).returns = <<[text |-> <<"o","k">>]>>

\* the block a one-block .NET piece gives: its '///' lines without the markers
BlockOf(piece) == CollectBlocks(Split(piece, <<NL>>), <<>>)[1]

\* what the <method> blocks among the .NET pieces say: k = 0, 1 and 2
MethodScenarios ==
    {[xml |-> BlockOf(D_Method0), name |-> <<"Z">>,
      summary |-> <<"S"," ","<"," ","T">>,
      parameters |-> <<>>, returns |-> <<"r">>],
     [xml |-> BlockOf(D_Method1), name |-> <<"F","o","o">>,
      summary |-> <<"D","o","e","s"," ","X">>,
      parameters |-> <<[text |-> <<"f","i","r","s","t">>,
                        attributes |-> << <<<<"n","a","m","e">>, <<"a">>>> >>]>>,
      returns |-> <<"a"," ","v","a","l","u","e">>],
     [xml |-> BlockOf(D_Method2), name |-> <<"B","a","r">>,
      summary |-> <<"A","d","d","s",".">>,
      parameters |-> <<[text |-> <<"o","n","e">>,
                        attributes |-> << <<<<"n","a","m","e">>, <<"x">>>> >>],
                       [text |-> <<"t","w","o">>,
                        attributes |-> << <<<<"n","a","m","e">>, <<"y">>>> >>]>>,
      returns |-> <<"s","u","m">>]}

\* C10: DotNetParser.parse_file on a /// block that is a well-formed <method
\* name="M"> fragment with a summary, k params and a returns child yields
\* exactly one item, in 'methods' only, with name M, the summary text, the k
\* parameters (name and text) in document order and the returns text, whatever
\* line follows the block.
C10_MethodItem ==
    (parser = "dotnet" /\ pc = "done") =>
        \A k \in 1..Len(doc_blocks) : \A sc \in MethodScenarios :
            doc_blocks[k] = sc.xml =>
                LET p == BlockStarts(lines)[k]
                IN  /\ BucketsOf(p) = {"methods"}
                    /\ Cardinality({i \in 1..Len(origins.methods) :
                                       origins.methods[i] = p}) = 1
                    /\ ItemOf("methods", p).name = sc.name
                    /\ ItemOf("methods", p).summary = sc.summary
                    /\ ItemOf("methods", p).parameters = sc.parameters
                    /\ ItemOf("methods", p).returns = sc.returns

\* C10 happens: the method block with two params, a code line after it, is
\* parsed after another block
C10_Witness ==
    /\ parser = "dotnet" /\ pc = "done"
    /\ Len(doc_blocks) >= 2
    /\ doc_blocks[Len(doc_blocks)] = BlockOf(D_Method2)
    /\ Len(documentation.methods) >= 1
    /\ Len(documentation.methods[Len(documentation.methods)].parameters) = 2

\* every item of the documentation dict, and every DocItem made from it, has
\* a name that is not the empty string
AllNamed ==
    /\ \A b \in DOMAIN documentation : \A i \in 1..Len(documentation[b]) :
           documentation[b][i].name # <<>>
    /\ \A i \in 1..Len(doc_items) : doc_items[i].name # <<>>

\* C11: for all three parsers every emitted item has a non-empty name; a block
\* whose name cannot be recovered (no pattern matches the anchor, or the .NET
\* root element has no name attribute) is dropped or gets a placeholder, and is
\* never emitted with the empty string as its name.
C11_NamesNonEmpty ==
    AllNamed

\* C11 fails: a well-formed .NET block whose root element has no name
\* attribute has been parsed and its item sits in a bucket with the name ''
C11_Witness ==
    /\ parser = "dotnet" /\ pc = "done"
    /\ \E k \in 1..Len(doc_blocks) :
          /\ XmlFromString(doc_blocks[k]).ok
          /\ \A j \in 1..Len(XmlFromString(doc_blocks[k]).node.attrib) :
                 XmlFromString(doc_blocks[k]).node.attrib[j][1] # <<"n","a","m","e">>
          /\ BucketsOf(BlockStarts(lines)[k]) = {"enums"}
          /\ ItemOf("enums", BlockStarts(lines)[k]).name = <<>>

\* the kinds a DocItem may have: class/type, function, property, enum,
\* interface, enum-case, as the code spells them
ItemKinds == {"class", "type", "function", "property", "enum", "interface", "case"}

\* C12: every DocItem SwiftParser.parse_file returns has a kind of the
\* enumerated set {class/type, function, property, enum, interface, enum-case};
\* no anchor the classifier accepts, a generic class 'class N<T>' included,
\* gives a DocItem whose kind lies outside that set.
C12_KindsEnumerated ==
    parser = "swift" => \A i \in 1..Len(doc_items) : doc_items[i].type \in ItemKinds

\* C12 fails: the block before 'class Box<T>' went to the 'types' bucket and
\* parse_file returned a DocItem named Box whose kind is 'unknown'
C12_Witness ==
    /\ parser = "swift" /\ pc = "done"
    /\ Len(documentation.types) >= 1
    /\ \E i \in 1..Len(doc_items) :
          /\ doc_items[i].name = <<"B","o","x">>
          /\ doc_items[i].type = "unknown"

\* the description-and-tags parts of the first section of a raw doc block: the
\* first is the description, each of the others is one labeled section
TagParts(doc_text) ==
    TagSplit(Strip(SplitSections(SwiftCleanDescription(doc_text))[1]))

\* the index in TagKeys of the label a labeled section starts with
SectionLabel(part) ==
    CHOOSE k \in 1..Len(TagKeys) : TagHeadEnd(part, 1, {TagKeys[k]}) > 0

\* the content of a labeled section: what follows 'Label:' up to the end of
\* the section, stripped
SectionText(part) ==
    Strip(From(part, TagHeadEnd(part, 1, {TagKeys[SectionLabel(part)]}) + 1))

\* the list of the parsed block that holds the text of each label other than
\* Parameters and Case
LabelField ==
    [k \in 2..9 |->
        CASE k = 2 -> "returns"   [] k = 3 -> "throws"
          [] k = 4 -> "notes"     [] k = 5 -> "warnings"
          [] k = 6 -> "important" [] k = 7 -> "see_also"
          [] k = 8 -> "preconditions" [] k = 9 -> "postconditions"]

\* the item made from the doc block handled last
LastItem ==
    ItemOf(CHOOSE b \in BucketsOf(block.first) : TRUE, block.first)

\* C13: in the Swift tag parser a dash-prefixed section '- Label: text' of the
\* tag region is recognized for every label, and its content, taken up to the
\* next labeled section or the end of the block, is recorded in the list of that
\* label; no content is discarded, none is cut short at a '-' that starts no
\* labeled section. Stated for the eight labels whose list holds plain texts.
C13_LabelsRecorded ==
    (parser = "swift" /\ block.kind # "none" /\ block.processed
        /\ BucketsOf(block.first) # {}) =>
        \A k \in 2..Len(TagParts(block.doc_text)) :
            LET part == TagParts(block.doc_text)[k]
            IN  SectionLabel(part) \in DOMAIN LabelField =>
                    \E i \in 1..Len(LastItem[LabelField[SectionLabel(part)]]) :
                        LastItem[LabelField[SectionLabel(part)]][i].text
                            = SectionText(part)

\* C13 fails: a block with the sections '- Returns: r', '- Note: a-b' and
\* '- Warning: w' was parsed; the Warning text is recorded, the Returns text is
\* in no list and the Note text is cut to 'a'
C13_Witness ==
    /\ parser = "swift" /\ pc = "done"
    /\ block.kind # "none" /\ block.processed /\ BucketsOf(block.first) = {"functions"}
    /\ Len(TagParts(block.doc_text)) = 4
    /\ SectionText(TagParts(block.doc_text)[2]) = <<"r">>
    /\ SectionText(TagParts(block.doc_text)[3]) = <<"a","-","b">>
    /\ LastItem.returns = <<>>
    /\ LastItem.notes = <<[text |-> <<"a">>]>>
    /\ LastItem.warnings = <<[text |-> <<"w">>]>>

\* the six KDoc tags
KDocTags ==
    {<<"@","p","a","r","a","m">>, <<"@","r","e","t","u","r","n">>, <<"@","t","h","r","o","w","s">>,
     <<"@","p","r","o","p","e","r","t","y">>, <<"@","s","e","e">>, <<"@","s","a","m","p","l","e">>}

\* a tag starts at position i of a KDoc text: one of the six tags, followed by
\* whitespace
IsTagStart(s, i) ==
    \E t \in KDocTags : At(s, i, t) /\ i + Len(t) <= Len(s) /\ s[i + Len(t)] \in Space

\* the last position of the text that starts at position v: it runs until the
\* next tag or the end of the block
TextEnd(s, v) ==
    LET nxt == {j \in v..Len(s) : IsTagStart(s, j)}
    IN  IF nxt = {} THEN Len(s) ELSE Min(nxt) - 1

\* the description of a KDoc text: all of it before the first tag, cleaned
TextBeforeTags(kdoc) ==
    KotlinCleanDescription(Strip(SubSeq(kdoc, 1, TextEnd(kdoc, 1))))

\* the texts of the @return tags of a KDoc text, each running until the next tag
RECURSIVE ReturnTexts(_, _)
ReturnTexts(s, from) ==
    LET starts == {i \in from..Len(s) : TextTagHead(s, i, <<"@","r","e","t","u","r","n">>) > 0}
    IN  IF starts = {} THEN <<>>
        ELSE LET v == TextTagHead(s, Min(starts), <<"@","r","e","t","u","r","n">>)
             IN  <<[text |-> KotlinCleanDescription(SubSeq(s, v + 1, TextEnd(s, v + 1)))]>>
                     \o ReturnTexts(s, TextEnd(s, v + 1) + 1)

\* C14: in the Kotlin parser the description of a block is all of its text
\* before the first @tag and the text of a tag runs until the next @tag or the
\* end of the block; an '@' inside the description or inside a tag's text that
\* starts no tag (as in user@host) ends neither. Stated for the description
\* and the @return texts of every block that yields an item.
C14_AtInsideText ==
    (parser = "kotlin" /\ block.kind = "kdoc" /\ BucketsOf(block.first) # {}) =>
        /\ LastItem.description = TextBeforeTags(block.kdoc)
        /\ LastItem.returns = ReturnTexts(block.kdoc, 1)

\* C14 fails: the block 'Mail user@host now. @return ok@x y' before 'fun m()'
\* was parsed; its description stops at 'Mail user' and its return text at 'ok'
C14_Witness ==
    /\ parser = "kotlin" /\ pc = "done"
    /\ block.kind = "kdoc" /\ BucketsOf(block.first) = {"functions"}
    /\ TextBeforeTags(block.kdoc) = <<"M","a","i","l"," ","u","s","e","r","@","h","o","s","t"," ","n","o","w",".">>
    /\ ReturnTexts(block.kdoc, 1) = <<[text |-> <<"o","k","@","x"," ","y">>]>>
    /\ LastItem.description = <<"M","a","i","l"," ","u","s","e","r">>
    /\ LastItem.returns = <<[text |-> <<"o","k">>]>>

\* the lines ls without the blank lines at their start and at their end
TrimBlank(ls) ==
    LET full == {k \in 1..Len(ls) : Strip(ls[k]) # <<>>}
    IN  IF full = {} THEN <<>> ELSE SubSeq(ls, Min(full), Max(full))

\* description lines, markers already removed, as one text: every line
\* stripped, the blank lines between two non-blank lines kept
Paragraphs(ls) ==
    Join([i \in 1..Len(TrimBlank(ls)) |-> Strip(TrimBlank(ls)[i])], <<NL>>)

\* the lines of the text KotlinParser hands to _clean_description as the
\* description of a block, the leading '*' of each line removed
KDocDescriptionLines(kdoc) ==
    LET ls == Split(Strip(Split(kdoc, <<"@">>)[1]), <<NL>>)
    IN  [i \in 1..Len(ls) |-> StripLeadStar(ls[i])]

\* the description lines of a '///' block: its lines without the '///', up to
\* the first line after the first that opens a labeled section or a '##'
\* subsection
SlashDescriptionLines(doc_text) ==
    LET ls   == Split(doc_text, <<NL>>)
        cl   == [i \in 1..Len(ls) |-> StripLeadSlashes(ls[i])]
        stop == {k \in 2..Len(cl) : TagAhead(cl[k], 1) \/ StartsWith(cl[k], <<"#","#">>)}
    IN  IF stop = {} THEN cl ELSE SubSeq(cl, 1, Min(stop) - 1)

\* the Kotlin half of C15: the description of the item made from the block
\* handled last keeps the blank lines between its paragraphs
KotlinBlankLinesKept ==
    (parser = "kotlin" /\ block.kind = "kdoc" /\ BucketsOf(block.first) # {}) =>
        LastItem.description = Paragraphs(KDocDescriptionLines(block.kdoc))

\* the Swift half of C15, for '///' blocks (an enum-case item takes the first
\* line only and is left out)
SwiftBlankLinesKept ==
    (parser = "swift" /\ block.kind = "slash" /\ block.processed
        /\ BucketsOf(block.first) # {} /\ BucketsOf(block.first) # {"cases"}) =>
        LastItem.description = Paragraphs(SlashDescriptionLines(block.doc_text))

\* C15: in the Kotlin and Swift parsers cleaning a description strips the
\* comment markers and the per-line leading markers but keeps every blank line
\* between two non-blank description lines: two paragraphs separated by a
\* blank comment line (' *' in KDoc, '///' in Swift) stay separated by a blank
\* line.
C15_BlankLinesKept ==
    KotlinBlankLinesKept /\ SwiftBlankLinesKept

\* C15 fails: the KDoc block with the paragraphs p and q, a ' *' line between
\* them, was parsed before 'fun h()' and its description is 'p', newline, 'q'
C15_Witness ==
    /\ parser = "kotlin" /\ pc = "done"
    /\ block.kind = "kdoc" /\ BucketsOf(block.first) = {"functions"}
    /\ Paragraphs(KDocDescriptionLines(block.kdoc)) = <<"p","\n","\n","q">>
    /\ LastItem.description = <<"p","\n","q">>

\* a text free of comment syntax: no '///', '/**' or '*/' in it, and no line
\* of it that begins, after whitespace, with '*'
NoCommentSyntax(text) ==
    /\ ~Contains(text, T_SlashDoc)
    /\ ~Contains(text, T_BlockOpen)
    /\ ~Contains(text, T_BlockClose)
    /\ \A k \in 1..Len(Split(text, <<NL>>)) :
           ~StartsWith(Strip(Split(text, <<NL>>)[k]), <<"*">>)

\* C16: the description of every item the Swift parser emits contains no
\* source comment syntax: no '///', '/**' or '*/' delimiter and no per-line
\* leading '*' marker, for both comment forms and any indentation of the
\* comment lines, a '/**' block with an indented opening line included.
C16_NoCommentSyntax ==
    parser = "swift" =>
        /\ \A b \in DOMAIN documentation : \A i \in 1..Len(documentation[b]) :
               NoCommentSyntax(documentation[b][i].description)
        /\ \A i \in 1..Len(doc_items) : NoCommentSyntax(doc_items[i].description)

\* C16 fails: the indented block '  /**', '   * m', '   */' before '  var v'
\* was parsed and the DocItem for v has the raw block, markers and all, as
\* its description
C16_Witness ==
    /\ parser = "swift" /\ pc = "done"
    /\ block.kind = "block" /\ block.processed
    /\ StartsWith(block.doc_text, <<" "," ">> \o T_BlockOpen)
    /\ \E i \in 1..Len(doc_items) :
          /\ doc_items[i].name = <<"v">>
          /\ doc_items[i].description = <<"/","*","*","\n"," "," "," ","*"," ","m","\n"," "," "," ","*","/">>

\* C17: parsing is deterministic and leaves the parser unchanged: two
\* parse_file calls on the same instance with the same content, whatever calls
\* on other contents lie between them, return equal results.
C17_Deterministic ==
    /\ \A i, j \in 1..Len(calls) :
           calls[i].content = calls[j].content => calls[i].result = calls[j].result
    /\ pc = "done" =>
           \A i \in 1..Len(calls) :
               calls[i].content = content => calls[i].result = CallResult

\* C17 happens: a third call has returned, on the content of the first call,
\* after a call on another content; both calls returned items
C17_Witness ==
    /\ pc = "done" /\ Len(calls) = 2
    /\ calls[1].content = content
    /\ calls[2].content # content
    /\ parser = "swift" /\ doc_items # <<>> /\ calls[2].result # <<>>

\* the doc block handled last was given to the classifier, which returned
\* (None, None)
Unclassified ==
    \/ /\ parser = "swift" /\ block.kind # "none" /\ block.processed
       /\ SwiftDetectCodeElement(lines[block.anchor + 1])[1] = "none"
    \/ /\ parser = "kotlin" /\ block.kind = "kdoc"
       /\ block.detected[1] = "none"

\* a '///' block starts at line p, and the first non-blank line after it is a
\* line of code that the classifier accepts
SlashBlockWithAnchor(p) ==
    /\ p < Len(lines) /\ IsSlashDoc(lines[p + 1])
    /\ p = 0 \/ ~IsSlashDoc(lines[p])
    /\ LET a == SkipBlank(lines, SlashDocEnd(lines, p))
       IN  /\ a < Len(lines)
           /\ SlashAnchorAccepted(lines[a + 1])
           /\ SwiftDetectCodeElement(lines[a + 1])[1] # "none"

\* where the comments '/**' ... '*/' of a text start, read from position from
RECURSIVE CommentStarts(_, _)
CommentStarts(s, from) ==
    IF KDocStarts(s, from) = {} THEN {}
    ELSE {Min(KDocStarts(s, from))}
             \cup CommentStarts(s, Min(Occurrences(s, T_BlockClose,
                                                   Min(KDocStarts(s, from)) + 3)) + 2)

\* a KDoc comment starts at position p of the content, and the line of code
\* after it is one the classifier accepts
KDocWithAnchor(p) ==
    /\ p \in CommentStarts(content, 1)
    /\ KotlinDetectCodeElement(Strip(KDocMatch(content, p).code))[1] # "none"

\* the index of the first line after the doc block that starts at line q
SwiftBlockEnd(q) ==
    IF IsSlashDoc(lines[q + 1]) THEN SlashDocEnd(lines, q) ELSE BlockDocEnd(lines, q)

\* a doc block starts at line q, and the first non-blank line after it is a
\* line that the classifier rejects
SwiftBlockRejected(q) ==
    /\ q < Len(lines)
    /\ \/ IsSlashDoc(lines[q + 1]) /\ (q = 0 \/ ~IsSlashDoc(lines[q]))
       \/ ~IsSlashDoc(lines[q + 1]) /\ IsBlockStart(lines[q + 1])
    /\ LET a == SkipBlank(lines, SwiftBlockEnd(q))
       IN  /\ a < Len(lines)
           /\ SwiftDetectCodeElement(lines[a + 1])[1] = "none"

\* a KDoc comment starts at position q of the content, and the line after it
\* is one the classifier rejects
KDocRejected(q) ==
    /\ q \in CommentStarts(content, 1)
    /\ KotlinDetectCodeElement(Strip(KDocMatch(content, q).code))[1] = "none"

\* the doc block at p has yielded an item
Yielded(p) ==
    \/ parser = "swift" /\ p < Len(lines)
           /\ \E k \in p..(SlashDocEnd(lines, p) - 1) : BucketsOf(k) # {}
    \/ parser = "kotlin" /\ BucketsOf(p) # {}

\* a block the classifier rejects adds no item, raises nothing, reports nothing
UnclassifiedDropped ==
    Unclassified => BucketsOf(block.first) = {} /\ ~raised /\ diagnostics = 0

\* when parse_file has returned, every doc block with a classifiable anchor
\* that lies after a block with a rejected anchor has yielded its item
LaterBlocksYield ==
    (pc = "done" /\ ~raised) =>
        /\ parser = "swift" =>
               \A q \in 0..(Len(lines) - 1) : \A p \in 0..(Len(lines) - 1) :
                   (/\ SwiftBlockRejected(q)
                    /\ p >= SwiftBlockEnd(q)
                    /\ SlashBlockWithAnchor(p)) => Yielded(p)
        /\ parser = "kotlin" =>
               \A q \in CommentStarts(content, 1) : \A p \in CommentStarts(content, 1) :
                   (KDocRejected(q) /\ p > q /\ KDocWithAnchor(p)) => Yielded(p)

\* C18: in the Swift and Kotlin parsers a doc block whose anchor line matches
\* no declaration pattern (the classifier returns (None, None)) adds no item,
\* raises no error and emits no diagnostic, and scanning continues: every
\* later doc block of the file that has a classifiable anchor still yields
\* its item.
C18_UnclassifiedSkipped == UnclassifiedDropped /\ LaterBlocksYield

\* C18 fails: the KDoc block '/** d */' got the next comment line as its code
\* line, the classifier returned (None, None), and the block '/** c */' before
\* 'class Foo' was never matched: parse_file returned no item
C18_Witness ==
    /\ parser = "kotlin" /\ pc = "done"
    /\ Unclassified /\ StartsWith(block.code_line, T_BlockOpen)
    /\ \E p \in CommentStarts(content, 1) :
          /\ p > block.first /\ KDocWithAnchor(p)
          /\ BucketsOf(p) = {}
    /\ TotalItems(documentation, KotlinBuckets) = 0

\* a doc line '/// - name: text' read as a parameter entry; <<>> for any
\* other line
ParameterLine(line) ==
    LET body == Strip(From(Strip(line), 4))
    IN  IF StartsWith(body, <<"-", " ">>) /\ Len(Split1(body, <<":">>)) = 2
        THEN <<[name        |-> Strip(From(Split1(body, <<":">>)[1], 3)),
                description |-> Strip(Split1(body, <<":">>)[2])]>>
        ELSE <<>>

\* the line is the heading '/// ## Parameters'
IsParametersHeading(line) ==
    Strip(From(Strip(line), 4)) = <<"#", "#", " ">> \o <<"P","a","r","a","m","e","t","e","r","s">>

\* the parameter entries that the '///' block starting at line p writes in its
\* Parameters subsection, in source order
WrittenParameters(p) ==
    LET last == SlashDocEnd(lines, p)
        heads == {h \in (p + 1)..last : IsParametersHeading(lines[h])}
    IN  IF heads = {} THEN <<>>
        ELSE LET h == Min(heads)
                 ends == {e \in (h + 1)..last :
                             StartsWith(Strip(From(Strip(lines[e]), 4)), <<"#", "#", " ">>)}
                 stop == IF ends = {} THEN last ELSE Min(ends) - 1
             IN  Concat([k \in 1..(stop - h) |-> ParameterLine(lines[h + k])])

\* the DocItem parse_file returned for the i-th item of 'functions'
FunctionDocItem(i) == doc_items[Len(documentation.classes) + i]

\* C19: SwiftParser.parse_file returns, for a function whose doc block has a
\* Parameters subsection with k lines '- name: text', a DocItem that carries
\* the k entries (name, text) in source order, repeated names included: the
\* parameters are not lost when the dictionary is converted to DocItems.
C19_ParametersCarried ==
    (parser = "swift" /\ pc = "done") =>
        \A i \in 1..Len(origins.functions) :
            (/\ IsSlashDoc(lines[origins.functions[i] + 1])
             /\ WrittenParameters(origins.functions[i]) # <<>>) =>
                FunctionDocItem(i).params = WrittenParameters(origins.functions[i])

\* C19 fails: the dictionary entry of f holds the two entries of the Parameters
\* subsection (a: one, a: two), the DocItem returned for f has none
C19_Witness ==
    /\ parser = "swift" /\ pc = "done"
    /\ Len(origins.functions) = 1
    /\ WrittenParameters(origins.functions[1]) =
           <<[name |-> <<"a">>, description |-> <<"o","n","e">>],
             [name |-> <<"a">>, description |-> <<"t","w","o">>]>>
    /\ documentation.functions[1].parameters = WrittenParameters(origins.functions[1])
    /\ FunctionDocItem(1).name = <<"f">>
    /\ FunctionDocItem(1).params = <<>>

\* an iteration of the scanning loop moves line_index forward or leaves the loop
ScanProgress ==
    (pc = "scan" /\ line_index < Len(lines)) =>
        (line_index' > line_index \/ pc' # "scan")

\* line_index never decreases and never passes the end of the lines
NeverDecreases == line_index' >= line_index /\ line_index' <= Len(lines)

\* the lines an iteration on a doc block consumes start where the scan stood
\* and end where it resumes: block lines, then blank lines, then the anchor
ConsumedOnce ==
    block' # block =>
        /\ block'.first = line_index
        /\ block'.first <= block'.last
        /\ block'.last < block'.resume
        /\ block'.resume = line_index'
        /\ block'.anchor # -1 => block'.anchor = block'.resume - 1
        /\ \A k \in (block'.last + 1)..(block'.resume - 1) :
               k # block'.anchor => IsBlank(lines[k + 1])

\* C20: the Swift scanning loop of _parse_file_to_dict terminates on every
\* finite sequence of lines: every iteration strictly increases line_index or
\* leaves the loop, line_index never decreases, every line is consumed at most
\* once (as a block line, a skipped blank line, an anchor or a non-doc line),
\* and the call ends.
C20_ScanTerminates ==
    /\ [][ScanProgress /\ NeverDecreases /\ ConsumedOnce]_vars
    /\ <>(pc = "done")

\* every step of the parser is a step of its control flow
ControlFollowed == [][NextSwift => SwiftControl]_vars

\* C20 happens: a file of at least four lines was scanned to its end and the
\* call returned; lines before the last block were stepped over, the block had
\* several lines and an anchor
C20_Witness ==
    /\ parser = "swift" /\ pc = "done" /\ ~raised
    /\ Len(lines) >= 4 /\ line_index = Len(lines)
    /\ block.kind # "none" /\ block.first > 0
    /\ block.last > block.first /\ block.anchor = block.last + 1

\* what the blocks with text elements among the .NET pieces say: the bucket of
\* the item, the field and the text it must hold.  Elements without a child
\* (returns ' r ', summary ' padded ') give their stripped text; elements with
\* children give the translations of the children only
TextScenarios ==
    {[xml |-> BlockOf(D_Class), bucket |-> "classes", field |-> "summary",
      text |-> <<BQ, "x", BQ>>],
     [xml |-> BlockOf(D_Prop), bucket |-> "properties", field |-> "summary",
      text |-> <<"[","q","]","(","Q",")"," ",BQ,"a",BQ>>],
     [xml |-> BlockOf(D_List), bucket |-> "types", field |-> "remarks",
      text |-> <<"1","."," ","t",":"," ","d","\n","2","."," ","i">>],
     [xml |-> BlockOf(D_Iface), bucket |-> "interfaces", field |-> "summary",
      text |-> <<"p","a","d","d","e","d">>],
     [xml |-> BlockOf(D_Mixed), bucket |-> "methods", field |-> "returns",
      text |-> <<"r">>],
     [xml |-> BlockOf(D_Mixed), bucket |-> "methods", field |-> "summary",
      text |-> <<"p"," ",BQ,BQ,BQ,"\n","k","\n",BQ,BQ,BQ," ",BQ,"T",BQ," ">>
                   \o <<"[","I","n","h","e","r","i","t","e","d"," ","d","o","c","u","m","e","n","t","a","t","i","o","n","]"," ","[","I","n","c","l","u","d","e","d"," ","f","r","o","m",":"," ","f","]">>]}

\* the items of the scenario blocks hold the scenario texts; the <param> of the
\* mixed block, 'the <c>v</c> one', gives the translation of its child
ScenarioTexts ==
    \A k \in 1..Len(doc_blocks) :
        /\ \A sc \in TextScenarios :
               doc_blocks[k] = sc.xml =>
                   /\ BucketsOf(BlockStarts(lines)[k]) = {sc.bucket}
                   /\ ItemOf(sc.bucket, BlockStarts(lines)[k])[sc.field] = sc.text
        /\ doc_blocks[k] = BlockOf(D_Mixed) =>
               LET ps == ItemOf("methods", BlockStarts(lines)[k]).parameters
               IN  Len(ps) = 1 /\ ps[1].text = <<BQ, "v", BQ>>

\* the tag each text field of an item is read from
TextFields ==
    {<<"summary", <<"s","u","m","m","a","r","y">>>>, <<"remarks", <<"r","e","m","a","r","k","s">>>>,
     <<"returns", <<"r","e","t","u","r","n","s">>>>}

\* the text of an element by the two cases: the stripped own text without a
\* child, else the translations of the children joined by single spaces
TextByCases(elem) ==
    IF elem.children = <<>> THEN Strip(elem.text)
    ELSE Join([i \in 1..Len(elem.children) |-> ChildText(elem.children[i])], <<" ">>)

\* every text field of every item is the text of the first element with the
\* field's tag, by the two cases; '' when the block has no such element
FieldsByCases ==
    \A k \in 1..Len(doc_blocks) :
        (XmlFromString(doc_blocks[k]).ok /\ BucketsOf(BlockStarts(lines)[k]) # {}) =>
            \A b \in BucketsOf(BlockStarts(lines)[k]) : \A f \in TextFields :
                f[1] \in DOMAIN ItemOf(b, BlockStarts(lines)[k]) =>
                    ItemOf(b, BlockStarts(lines)[k])[f[1]] =
                        IF FindAll(XmlFromString(doc_blocks[k]).node, f[2]) = <<>>
                        THEN <<>>
                        ELSE TextByCases(FindAll(XmlFromString(doc_blocks[k]).node, f[2])[1])

\* C21: DotNetParser._get_element_text gives, for an element without a child
\* element, the element's own stripped text, and for an element with at least
\* one child exactly the translations of the children joined by single spaces
\* in document order: the element's own leading text and the text that
\* follows each child contribute nothing.
C21_TextByChildren ==
    (parser = "dotnet" /\ pc = "done") => ScenarioTexts /\ FieldsByCases

\* C21 happens: the method block whose summary mixes text with five kinds of
\* children, and whose returns has none, was parsed into an item
C21_Witness ==
    /\ parser = "dotnet" /\ pc = "done"
    /\ \E k \in 1..Len(doc_blocks) :
          /\ doc_blocks[k] = BlockOf(D_Mixed)
          /\ BucketsOf(BlockStarts(lines)[k]) = {"methods"}
          /\ Len(FindAll(XmlFromString(doc_blocks[k]).node, <<"s","u","m","m","a","r","y">>)[1].children) = 5
          /\ FindAll(XmlFromString(doc_blocks[k]).node, <<"s","u","m","m","a","r","y">>)[1].text
                 = <<"l","e","a","d"," ">>
          /\ ItemOf("methods", BlockStarts(lines)[k]).returns = <<"r">>

====
